---------------------------- MODULE Spec2Model ----------------------------
(***************************************************************************)
(* AURA AI core: the risk-fusion pipeline of perform_analysis             *)
(* (src/ai-core/app/main.py) over RetinalModelService                     *)
(* (src/ai-core/app/model_service.py) and ImageProcessor                  *)
(* (src/ai-core/app/image_processor.py).                                  *)
(*                                                                         *)
(* Numbers.  Every probability, score and vascular index is a fixed-point *)
(* integer in units of 1/One (One = 1.0).  All inputs are drawn from      *)
(* grids on which each product the code forms (probability*weight,        *)
(* 0.8*score, 0.25*index, ...) is a whole number of units, so the         *)
(* arithmetic below is the exact decimal arithmetic of the source; the    *)
(* rounding of IEEE doubles is not modelled.                              *)
(*                                                                         *)
(* Dictionaries are functions from key strings; a key the code may leave  *)
(* out is left out of the DOMAIN and read with Get, as dict.get does.     *)
(***************************************************************************)
EXTENDS Integers, Sequences, FiniteSets, TLC

One == 10000

\* The largest blob count the feature extractor is given in the model.
MaxBlobs == 60

Min(a, b) == IF a <= b THEN a ELSE b
Max(a, b) == IF a >= b THEN a ELSE b

\* Tenths and hundredths of One: T(3) = 0.3, H(25) = 0.25.
T(n) == (n * One) \div 10
H(n) == (n * One) \div 100

\* x * (n/10) and x * (n/100) for a fixed-point x.
MulT(x, n) == (x * n) \div 10
MulH(x, n) == (x * n) \div 100

\* dict.get(key, default)
\* The empty dictionary.
NoDict == [k \in {} |-> 0]

Get(d, k, default) == IF k \in DOMAIN d THEN d[k] ELSE default

\* d[k] = v on a copy of d (adds the key when it is missing)
Put(d, k, v) == [x \in (DOMAIN d) \cup {k} |-> IF x = k THEN v ELSE d[x]]

(***************************************************************************)
(* Static tables of RetinalModelService                                    *)
(***************************************************************************)
OCT_CLASSES == <<"CNV", "DME", "DRUSEN", "NORMAL">>

ClassSet == {OCT_CLASSES[i] : i \in 1..Len(OCT_CLASSES)}

CONDITION_URGENCY ==
    [CNV |-> "high", DME |-> "high", DRUSEN |-> "medium", NORMAL |-> "low"]

CLINICAL_THRESHOLDS ==
    [CNV |-> T(3), DME |-> T(3), DRUSEN |-> T(4), NORMAL |-> T(5)]

\* The keys of SYSTEMIC_HEALTH_RISKS in dictionary order.
SYSTEMIC_KEYS == <<"cardiovascular", "diabetes", "hypertension", "stroke">>

SystemicSet == {SYSTEMIC_KEYS[i] : i \in 1..Len(SYSTEMIC_KEYS)}

\* risk_factors of each systemic category, in dictionary order; the factor
\* is in tenths (3 = 0.3).
RISK_FACTORS ==
    [cardiovascular |-> << <<"CNV", 3>>, <<"DME", 4>>, <<"DRUSEN", 2>> >>,
     diabetes       |-> << <<"DME", 8>> >>,
     hypertension   |-> << <<"CNV", 4>>, <<"DRUSEN", 3>> >>,
     stroke         |-> << <<"DME", 5>>, <<"CNV", 3>> >>]

(***************************************************************************)
(* RetinalModelService._determine_severity                                 *)
(***************************************************************************)
DetermineSeverity(probability, class_name) ==
    IF class_name = "NORMAL"
    THEN (IF probability > T(7) THEN "Healthy" ELSE "Uncertain")
    ELSE IF probability < T(3) THEN "Not detected"
    ELSE IF probability < T(5) THEN "Mild"
    ELSE IF probability < T(7) THEN "Moderate"
    ELSE IF probability < H(85) THEN "Severe"
    ELSE "Advanced"

(***************************************************************************)
(* The per-class loop of _build_clinical_results: is_positive and the      *)
(* condition record (clinical_name, icd10, description and the Wilson      *)
(* interval are static or derived decoration and are left out).            *)
(***************************************************************************)
IsPositiveAnyClass(prob, class_name) == prob >= CLINICAL_THRESHOLDS[class_name]

IsPositive(prob, class_name) ==
    prob >= CLINICAL_THRESHOLDS[class_name] /\ class_name # "NORMAL"

BuildConditions(probabilities) ==
    [c \in ClassSet |->
        [probability |-> probabilities[c],
         positive    |-> IsPositive(probabilities[c], c),
         threshold   |-> CLINICAL_THRESHOLDS[c],
         severity    |-> DetermineSeverity(probabilities[c], c)]]

(***************************************************************************)
(* The risk bands of a systemic score (model_service.py 529-536 and        *)
(* main.py 953-960 are the same ladder).                                   *)
(***************************************************************************)
SystemicBandModerateFrom02(risk_score) ==
    IF risk_score >= T(6) THEN "High"
    ELSE IF risk_score >= T(2) THEN "Moderate"
    ELSE IF risk_score >= T(1) THEN "Low"
    ELSE "Minimal"

SystemicBand(risk_score) ==
    IF risk_score >= T(6) THEN "High"
    ELSE IF risk_score >= T(3) THEN "Moderate"
    ELSE IF risk_score >= T(1) THEN "Low"
    ELSE "Minimal"

(***************************************************************************)
(* RetinalModelService._calculate_systemic_health_risks                    *)
(***************************************************************************)
\* A condition enters the score only if its probability is > 10%.
Contributes(condition_prob) == condition_prob > T(1)

\* The inner loop over risk_factors, from entry i on: acc carries
\* risk_score and contributing_conditions.
RECURSIVE FactorLoop(_, _, _, _)
FactorLoop(factors, conditions, i, acc) ==
    IF i > Len(factors) THEN acc
    ELSE
        LET condition_name == factors[i][1]
            factor         == factors[i][2]
            condition_data == conditions[condition_name]
            condition_prob == condition_data.probability
            contribution   == MulT(condition_prob, factor)
        IN  IF Contributes(condition_prob)
            THEN FactorLoop(factors, conditions, i + 1,
                    [risk_score |-> acc.risk_score + contribution,
                     contributing_conditions |->
                        IF condition_data.positive
                        THEN Append(acc.contributing_conditions,
                                [condition    |-> condition_name,
                                 probability  |-> condition_prob,
                                 contribution |-> contribution])
                        ELSE acc.contributing_conditions])
            ELSE FactorLoop(factors, conditions, i + 1, acc)

\* risk_score before min(1.0, .)
RawSystemicScore(risk_key, conditions) ==
    FactorLoop(RISK_FACTORS[risk_key], conditions, 1,
               [risk_score |-> 0, contributing_conditions |-> <<>>]).risk_score

CalculateSystemicHealthRisks(conditions) ==
    [risk_key \in SystemicSet |->
        LET acc == FactorLoop(RISK_FACTORS[risk_key], conditions, 1,
                       [risk_score |-> 0, contributing_conditions |-> <<>>])
            risk_score == Min(One, acc.risk_score)
        IN  [risk_score |-> risk_score,
             risk_level |-> SystemicBand(risk_score),
             contributing_conditions |-> acc.contributing_conditions]]

(***************************************************************************)
(* RetinalModelService._assess_overall_risk                                *)
(***************************************************************************)
\* The loop over conditions.items(): max_risk, primary_condition and
\* positive_conditions, from class i on.
RECURSIVE ConditionLoop(_, _, _)
ConditionLoop(conditions, i, acc) ==
    IF i > Len(OCT_CLASSES) THEN acc
    ELSE
        LET class_name == OCT_CLASSES[i]
            data       == conditions[class_name]
        IN  IF class_name = "NORMAL" THEN ConditionLoop(conditions, i + 1, acc)
            ELSE IF data.positive
            THEN ConditionLoop(conditions, i + 1,
                    [max_risk |->
                        IF data.probability > acc.max_risk
                        THEN data.probability ELSE acc.max_risk,
                     primary_condition |->
                        IF data.probability > acc.max_risk
                        THEN class_name ELSE acc.primary_condition,
                     positive_conditions |->
                        Append(acc.positive_conditions, class_name)])
            ELSE ConditionLoop(conditions, i + 1, acc)

ScanConditions(conditions) ==
    ConditionLoop(conditions, 1,
        [max_risk |-> 0, primary_condition |-> "NORMAL",
         positive_conditions |-> <<>>])

\* The loop over systemic_risks.items(): max_systemic_risk.
RECURSIVE MaxSystemicLoop(_, _, _)
MaxSystemicLoop(systemic_risks, i, acc) ==
    IF i > Len(SYSTEMIC_KEYS) THEN acc
    ELSE LET k == SYSTEMIC_KEYS[i]
         IN  IF k \in DOMAIN systemic_risks
             THEN MaxSystemicLoop(systemic_risks, i + 1,
                      IF systemic_risks[k].risk_score > acc
                      THEN systemic_risks[k].risk_score ELSE acc)
             ELSE MaxSystemicLoop(systemic_risks, i + 1, acc)

\* The same loop: high_systemic_risks, in dictionary order.
RECURSIVE HighSystemicLoop(_, _, _)
HighSystemicLoop(systemic_risks, i, acc) ==
    IF i > Len(SYSTEMIC_KEYS) THEN acc
    ELSE LET k == SYSTEMIC_KEYS[i]
         IN  IF k \in DOMAIN systemic_risks
                /\ systemic_risks[k].risk_level \in {"High", "Moderate"}
             THEN HighSystemicLoop(systemic_risks, i + 1, Append(acc, k))
             ELSE HighSystemicLoop(systemic_risks, i + 1, acc)

\* The ladder with Medium starting strictly above 0.4.
OverallLevelStrictMedium(combined_risk, max_risk) ==
    IF combined_risk >= T(7) THEN "High"
    ELSE IF max_risk > T(4) THEN "Medium"
    ELSE IF max_risk >= T(3) THEN "Low"
    ELSE "Minimal"

\* The ladder of lines 622-629.
OverallLevel(combined_risk, max_risk) ==
    IF combined_risk >= T(7) THEN "High"
    ELSE IF max_risk >= T(4) THEN "Medium"
    ELSE IF max_risk >= T(3) THEN "Low"
    ELSE "Minimal"

\* The override with its threshold raised to 0.9.
NormalOverrideAbove09(normal_prob) == normal_prob > T(9)

\* Lines 631-635: a NORMAL probability above 0.7 overrides the ladder.
NormalOverride(normal_prob) == normal_prob > T(7)

RequiresReferral(risk_level, primary_condition) ==
    risk_level \in {"High", "Medium"} /\ primary_condition # "NORMAL"

AssessOverallRisk(conditions, systemic_risks) ==
    LET scan == ScanConditions(conditions)
        max_risk == scan.max_risk
        max_systemic_risk == MaxSystemicLoop(systemic_risks, 1, 0)
        high_systemic_risks == HighSystemicLoop(systemic_risks, 1, <<>>)
        combined_risk == Max(max_risk, MulT(max_systemic_risk, 8))
        normal_prob == conditions["NORMAL"].probability
        risk_level == IF NormalOverride(normal_prob) THEN "Low"
                      ELSE OverallLevel(combined_risk, max_risk)
        primary_condition == IF NormalOverride(normal_prob) THEN "NORMAL"
                             ELSE scan.primary_condition
        risk_score == IF primary_condition # "NORMAL" THEN max_risk
                      ELSE One - normal_prob
    IN  [risk_level |-> risk_level,
         risk_score |-> risk_score,
         combined_risk_score |-> combined_risk,
         primary_condition |-> primary_condition,
         positive_conditions |-> scan.positive_conditions,
         high_systemic_risks |-> high_systemic_risks,
         urgency |-> CONDITION_URGENCY[primary_condition],
         requires_referral |-> RequiresReferral(risk_level, primary_condition),
         requires_systemic_followup |-> Len(high_systemic_risks) > 0]

(***************************************************************************)
(* RetinalModelService._generate_recommendations.  A recommendation line   *)
(* is modelled by its kind and the condition, category or level it is      *)
(* about; the Vietnamese wording is not modelled.                          *)
(***************************************************************************)
Line(kind, about) == [kind |-> kind, about |-> about]

RECURSIVE Concat(_)
Concat(seqs) == IF seqs = <<>> THEN <<>> ELSE Head(seqs) \o Concat(Tail(seqs))

\* The warnings of the healthy branch given for High only.
RECURSIVE HealthyWarningsHighOnly(_, _)
HealthyWarningsHighOnly(systemic_risks, i) ==
    IF i > Len(SYSTEMIC_KEYS) THEN <<>>
    ELSE LET k == SYSTEMIC_KEYS[i]
         IN  (IF k \in DOMAIN systemic_risks
                 /\ systemic_risks[k].risk_level = "High"
              THEN <<Line("systemic_warning", k)>> ELSE <<>>)
             \o HealthyWarningsHighOnly(systemic_risks, i + 1)

\* Lines 691-698: one warning per systemic category at Moderate/High.
RECURSIVE HealthyWarnings(_, _)
HealthyWarnings(systemic_risks, i) ==
    IF i > Len(SYSTEMIC_KEYS) THEN <<>>
    ELSE LET k == SYSTEMIC_KEYS[i]
         IN  (IF k \in DOMAIN systemic_risks
                 /\ systemic_risks[k].risk_level \in {"Moderate", "High"}
              THEN <<Line("systemic_warning", k)>> ELSE <<>>)
             \o HealthyWarnings(systemic_risks, i + 1)

\* Lines 708-743: the lines of one positive condition.
ConditionLines(class_name, positive_conditions) ==
    IF \E i \in 1..Len(positive_conditions) : positive_conditions[i] = class_name
    THEN IF class_name = "CNV"
         THEN <<Line("condition", "CNV"), Line("condition_action", "CNV")>>
         ELSE <<Line("condition", class_name),
                Line("condition_action", class_name),
                Line("condition_action", class_name)>>
    ELSE <<>>

\* Lines 751-802: the lines of one systemic category at High/Moderate.
SystemicLines(risk_key, systemic_risks) ==
    IF risk_key \in DOMAIN systemic_risks
       /\ systemic_risks[risk_key].risk_level \in {"High", "Moderate"}
    THEN IF risk_key \in {"cardiovascular", "hypertension"}
         THEN <<Line("systemic", risk_key), Line("systemic_action", risk_key)>>
         ELSE <<Line("systemic", risk_key),
                Line("systemic_action", risk_key),
                Line("systemic_action", risk_key)>>
    ELSE <<>>

\* Lines 804-812: the urgency banner.
UrgencyBanner(risk_level) ==
    IF risk_level = "High" THEN <<Line("banner", "High")>>
    ELSE IF risk_level = "Medium" THEN <<Line("banner", "Medium")>>
    ELSE <<>>

\* The summary block appended whatever requires_systemic_followup says.
SummaryBlockAlways(systemic_risks, risk_assessment) ==
    <<Line("summary", "blank"), Line("summary", "title"),
      Line("summary", "signs"), Line("summary", "multidisciplinary")>>

\* Lines 815-825: the multi-disciplinary summary block (4 lines).
SummaryBlock(systemic_risks, risk_assessment) ==
    IF DOMAIN systemic_risks # {}
       /\ Get(risk_assessment, "requires_systemic_followup", FALSE)
    THEN <<Line("summary", "blank"), Line("summary", "title"),
           Line("summary", "signs"), Line("summary", "multidisciplinary")>>
    ELSE <<>>

\* Line 684: the test of the healthy branch.
HealthyBranch(risk_assessment) ==
    /\ risk_assessment["primary_condition"] = "NORMAL"
    /\ risk_assessment["risk_level"] \in {"Minimal", "Low"}

\* Lines 685-705: the whole healthy branch.
HealthyLines(systemic_risks) ==
    LET warnings == HealthyWarnings(systemic_risks, 1)
    IN  <<Line("reassurance", "NORMAL")>> \o warnings
        \o (IF warnings = <<>> THEN <<Line("routine_followup", "NORMAL")>>
            ELSE <<>>)

GenerateRecommendations(conditions, risk_assessment, systemic_risks) ==
    LET risk_level == risk_assessment["risk_level"]
    IN  IF HealthyBranch(risk_assessment)
        THEN HealthyLines(systemic_risks)
        ELSE Concat(<<
                ConditionLines("CNV", risk_assessment["positive_conditions"]),
                ConditionLines("DME", risk_assessment["positive_conditions"]),
                ConditionLines("DRUSEN", risk_assessment["positive_conditions"]),
                SystemicLines("cardiovascular", systemic_risks),
                SystemicLines("diabetes", systemic_risks),
                SystemicLines("hypertension", systemic_risks),
                SystemicLines("stroke", systemic_risks),
                UrgencyBanner(risk_level),
                SummaryBlock(systemic_risks, risk_assessment) >>)

(***************************************************************************)
(* RetinalModelService._build_clinical_results                             *)
(***************************************************************************)
\* np.argmax: the first index holding the largest probability.
ArgMax(probabilities) ==
    LET best == CHOOSE i \in 1..Len(OCT_CLASSES) :
                    /\ \A j \in 1..Len(OCT_CLASSES) :
                          probabilities[OCT_CLASSES[j]] <= probabilities[OCT_CLASSES[i]]
                    /\ \A j \in 1..(i - 1) :
                          probabilities[OCT_CLASSES[j]] < probabilities[OCT_CLASSES[i]]
    IN  OCT_CLASSES[best]

BuildClinicalResults(probabilities) ==
    LET conditions == BuildConditions(probabilities)
        systemic == CalculateSystemicHealthRisks(conditions)
        assessment == AssessOverallRisk(conditions, systemic)
    IN  [predicted_class |-> ArgMax(probabilities),
         confidence |-> probabilities[ArgMax(probabilities)],
         conditions |-> conditions,
         systemic_health_risks |-> systemic,
         risk_assessment |-> assessment,
         recommendations |->
            GenerateRecommendations(conditions, assessment, systemic)]

(***************************************************************************)
(* generate_fallback_results (main.py): the literal dictionary.            *)
(***************************************************************************)
FallbackSystemicEntry ==
    [risk_score |-> T(1), risk_level |-> "Minimal",
     contributing_conditions |-> <<>>]

FallbackCondition(class_name) ==
    IF class_name = "NORMAL"
    THEN [probability |-> T(7), positive |-> TRUE, threshold |-> T(5),
          severity |-> "Healthy"]
    ELSE [probability |-> T(1), positive |-> FALSE,
          threshold |-> IF class_name = "DRUSEN" THEN T(4) ELSE T(3),
          severity |-> "Not detected"]

GenerateFallbackResults ==
    [predicted_class |-> "NORMAL",
     confidence |-> T(5),
     systemic_health_risks |-> [k \in SystemicSet |-> FallbackSystemicEntry],
     conditions |-> [c \in ClassSet |-> FallbackCondition(c)],
     risk_assessment |->
        [risk_level |-> "Low",
         risk_score |-> T(1),
         primary_condition |-> "NORMAL",
         positive_conditions |-> <<>>,
         urgency |-> "low",
         requires_referral |-> FALSE],
     recommendations |->
        <<Line("fallback_notice", "mode"), Line("fallback_notice", "finding"),
          Line("fallback_notice", "followup")>>]

(***************************************************************************)
(* ImageProcessor.analyze_image_features: the vascular metrics derived     *)
(* from the raw features.  vessel_density is a fraction in units of 1/One, *)
(* texture_variance a variance of 8-bit grey levels, and                   *)
(* potential_abnormalities_count the number of blobs.                      *)
(***************************************************************************)
\* No clipping at all.
NoClip(x) == x

\* max(0.0, min(1.0, x))
Clip01(x) == Max(0, Min(One, x))

VascularMetrics(vessel_density, potential_abnormalities_count, texture_variance) ==
    LET vd_norm == Clip01(vessel_density * 5)
        tv_norm == Clip01((texture_variance * One) \div 500)
        microaneurysm_count == potential_abnormalities_count
    IN  [tortuosity_index |->
            Clip01(MulT(tv_norm, 6) + MulT(vd_norm, 4)),
         width_variation_index |->
            Clip01(MulT(tv_norm, 7) + MulT(One - vd_norm, 3)),
         microaneurysm_count |-> microaneurysm_count,
         hemorrhage_score |->
            Clip01((microaneurysm_count * One) \div 100 + MulT(vd_norm, 5))]

AnalyzeImageFeatures(vessel_density, potential_abnormalities_count, texture_variance) ==
    [vessel_density |-> vessel_density,
     potential_abnormalities_count |-> potential_abnormalities_count,
     texture_variance |-> texture_variance,
     vascular_metrics |->
        VascularMetrics(vessel_density, potential_abnormalities_count,
                        texture_variance)]

\* The sub-computations of analyze_image_features that have their own
\* try/except.
FeatureSteps == {"edges", "blobs", "texture"}

\* The except branch of the vascular-metrics block (setdefault).
DefaultVascularMetrics ==
    [tortuosity_index |-> 0, width_variation_index |-> 0,
     microaneurysm_count |-> 0, hemorrhage_score |-> 0]

\* analyze_image_features when the sub-computations in `failed` raise.  A
\* failed step stores the neutral default in features; only the texture
\* handler also binds its local (texture_variance = 0.0).  After a failure
\* of the edge or blob step the local vessel_density or
\* potential_abnormalities_count is unbound, the vascular block raises
\* NameError on reading it and its except branch stores the default metrics.
AnalyzeImageFeaturesExcept(failed, vessel_density, potential_abnormalities_count, texture_variance) ==
    LET tv == IF "texture" \in failed THEN 0 ELSE texture_variance
    IN  [vessel_density |->
            IF "edges" \in failed THEN 0 ELSE vessel_density,
         potential_abnormalities_count |->
            IF "blobs" \in failed THEN 0 ELSE potential_abnormalities_count,
         texture_variance |-> tv,
         vascular_metrics |->
            IF "edges" \in failed \/ "blobs" \in failed
            THEN DefaultVascularMetrics
            ELSE VascularMetrics(vessel_density,
                                 potential_abnormalities_count, tv)]

(***************************************************************************)
(* ImageProcessor.assess_image_quality.  The four metrics of the grey      *)
(* image are whole numbers here (sharpness = Laplacian variance, contrast  *)
(* = standard deviation, brightness = mean, dynamic_range = max - min);    *)
(* the score is in units of 1/QualityUnit, the least unit in which         *)
(* 0.3*s/500, 0.3*c/50, 0.2*d/128 and 0.2*r/255 are whole for whole s, c,  *)
(* d, r.                                                                   *)
(***************************************************************************)
QualityUnit == 4080000

Abs(x) == IF x < 0 THEN 0 - x ELSE x

\* The term without its min(., 1.0).
QualityTermUnclipped(metric, full, tenths) ==
    ((metric * (QualityUnit \div full)) * tenths) \div 10

\* min(metric / full, 1.0) * (tenths / 10); QualityUnit is a multiple of
\* every full.
QualityTerm(metric, full, tenths) ==
    ((Min(metric, full) * (QualityUnit \div full)) * tenths) \div 10

\* The weighted combination of lines 122-127.
QualityScore(metrics) ==
    Min(QualityUnit,
        QualityTerm(metrics.sharpness, 500, 3)
        + QualityTerm(metrics.contrast, 50, 3)
        + QualityTerm(Abs(metrics.brightness - 128), 128, 2)
        + QualityTerm(metrics.dynamic_range, 255, 2))

\* raises: something inside the try block raised (e.g. a zero-size array).
AssessImageQuality(metrics, raises) ==
    IF raises THEN 0 ELSE QualityScore(metrics)

(***************************************************************************)
(* ImageProcessor.validate_image.  issues is the list in append order;     *)
(* characteristics keeps the three levels.                                 *)
(***************************************************************************)
MIN_DIMENSION == 256

LARGE_DIMENSION == 4096

\* 0.5 in quality units
QualityThreshold == QualityUnit \div 2

\* The dimension rule looking at the width only.
TooSmallWidthOnly(width, height) == width < MIN_DIMENSION

\* Lines 159-161 and 176-178: the two rules that clear is_valid.
TooSmall(width, height) == width < MIN_DIMENSION \/ height < MIN_DIMENSION

QualityInsufficient(quality_score) == quality_score < QualityThreshold

BrightnessLevel(mean_brightness) ==
    IF mean_brightness < 50 THEN "dark"
    ELSE IF mean_brightness > 200 THEN "bright"
    ELSE "normal"

ContrastLevel(contrast) ==
    IF contrast < 20 THEN "low"
    ELSE IF contrast > 80 THEN "high"
    ELSE "normal"

SharpnessLevel(laplacian_var) ==
    IF laplacian_var > 100 THEN "sharp" ELSE "blurry"

ValidateImage(width, height, metrics) ==
    LET quality_score == AssessImageQuality(metrics, FALSE)
        issues ==
            (IF TooSmall(width, height) THEN <<"too_small">> ELSE <<>>)
            \o (IF width > LARGE_DIMENSION \/ height > LARGE_DIMENSION
                THEN <<"very_large">> ELSE <<>>)
            \o (IF QualityInsufficient(quality_score)
                THEN <<"quality_insufficient">> ELSE <<>>)
            \o (IF metrics.brightness < 50 THEN <<"too_dark">>
                ELSE IF metrics.brightness > 200 THEN <<"too_bright">>
                ELSE <<>>)
            \o (IF metrics.contrast < 20 THEN <<"low_contrast">> ELSE <<>>)
            \o (IF metrics.sharpness < 100 THEN <<"blurry">> ELSE <<>>)
    IN  [is_valid |-> ~TooSmall(width, height)
                      /\ ~QualityInsufficient(quality_score),
         issues |-> issues,
         quality_score |-> Max(0, Min(QualityUnit, quality_score)),
         characteristics |->
            [brightness |-> BrightnessLevel(metrics.brightness),
             contrast |-> ContrastLevel(metrics.contrast),
             sharpness |-> SharpnessLevel(metrics.sharpness)]]

(***************************************************************************)
(* ImageProcessor.download_image.  A source is what the URL gives: whether *)
(* the HTTP exchange succeeds, how many bytes come back, whether they      *)
(* decode, and the decoded picture.  A message is the list of its parts:   *)
(* the fixed wording first, then the text of the exception it wraps.       *)
(***************************************************************************)
MAX_IMAGE_SIZE == 10 * 1024 * 1024

ValueError(parts) == [type |-> "ValueError", message |-> parts]

DownloadImage(source) ==
    IF ~source.http_ok
    THEN [raised |-> TRUE,
          exception |-> ValueError(<<"cannot_download_image_from_url",
                                     "httpx.HTTPError">>)]
    ELSE IF source.size_bytes > MAX_IMAGE_SIZE
    THEN [raised |-> TRUE,
          exception |-> ValueError(<<"cannot_process_input_image",
                                     "Image too large">>)]
    ELSE IF ~source.decodable
    THEN [raised |-> TRUE,
          exception |-> ValueError(<<"cannot_process_input_image",
                                     "cannot identify image file">>)]
    ELSE [raised |-> FALSE,
          image_array |-> [width |-> source.width, height |-> source.height,
                           metrics |-> source.metrics]]

(***************************************************************************)
(* analyze_image (main.py 277-295): the except branch turns every          *)
(* exception into an HTTPException 500 whose detail is the fixed sentence  *)
(* followed by "Chi tiet ky thuat:" and str(e).                            *)
(***************************************************************************)
HTTPExceptionFor(e) ==
    [status_code |-> 500,
     detail |-> <<"cannot_analyze_retry_or_contact_support",
                  "technical_detail">> \o e.message]

(***************************************************************************)
(* enrich_systemic_risks_with_vascular (main.py)                           *)
(***************************************************************************)
\* vascular_influence[key], and 0.0 for a key it does not hold.
VascularInfluence(key, tortuosity, width_var, hemorrhage) ==
    IF key = "cardiovascular"
    THEN MulH(tortuosity, 25) + MulH(width_var, 25) + MulH(hemorrhage, 25)
    ELSE IF key = "hypertension"
    THEN MulH(tortuosity, 35) + MulH(width_var, 25)
    ELSE IF key = "diabetes"
    THEN MulH(hemorrhage, 20)
    ELSE IF key = "stroke"
    THEN MulH(hemorrhage, 30) + MulH(tortuosity, 20)
    ELSE 0

\* The boost without its cap of 0.25.
BoostedScoreUncapped(score, extra) == Min(One, score + extra)

\* boosted_score = min(1.0, score + min(extra, 0.25))
BoostedScore(score, extra) == Min(One, score + Min(extra, H(25)))

\* The ladder of main.py 953-960.
BoostedLevel(boosted_score) ==
    IF boosted_score >= T(6) THEN "High"
    ELSE IF boosted_score >= T(3) THEN "Moderate"
    ELSE IF boosted_score >= T(1) THEN "Low"
    ELSE "Minimal"

\* updated_systemic: each entry copied, risk_score and risk_level replaced.
UpdatedSystemic(systemic_risks, vascular_metrics) ==
    LET tortuosity == Get(vascular_metrics, "tortuosity_index", 0)
        width_var  == Get(vascular_metrics, "width_variation_index", 0)
        hemorrhage == Get(vascular_metrics, "hemorrhage_score", 0)
    IN  [key \in DOMAIN systemic_risks |->
            LET data == systemic_risks[key]
                score == Get(data, "risk_score", 0)
                extra == VascularInfluence(key, tortuosity, width_var, hemorrhage)
                boosted_score == BoostedScore(score, extra)
            IN  Put(Put(data, "risk_score", boosted_score),
                    "risk_level", BoostedLevel(boosted_score))]

\* max_systemic_score over the updated entries.
MaxSystemicScore(updated_systemic) ==
    IF DOMAIN updated_systemic = {} THEN 0
    ELSE LET k == CHOOSE k \in DOMAIN updated_systemic :
                    \A j \in DOMAIN updated_systemic :
                        updated_systemic[j]["risk_score"]
                            <= updated_systemic[k]["risk_score"]
         IN  Max(0, updated_systemic[k]["risk_score"])

\* Lines 977-990: the level after the re-blend.
ReblendLevel(max_vascular, current_level, combined_score) ==
    IF max_vascular >= T(7) /\ current_level \in {"Minimal", "Low"}
    THEN "Medium"
    ELSE IF combined_score >= T(7) THEN "High"
    ELSE IF combined_score >= T(4) THEN "Medium"
    ELSE IF combined_score >= T(3) THEN "Low"
    ELSE "Minimal"

\* Line 975: combined_score = max(base_score, max_systemic_score * 0.8)
ReblendCombined(base_score, max_systemic_score) ==
    Max(base_score, MulT(max_systemic_score, 8))

UpdatedAssessmentFresh(updated_systemic, vascular_metrics, base_risk_assessment) ==
    LET base_score == Get(base_risk_assessment, "risk_score", 0)
        combined_score ==
            ReblendCombined(base_score, MaxSystemicScore(updated_systemic))
    IN  [risk_level |->
             ReblendLevel(Max(Get(vascular_metrics, "tortuosity_index", 0),
                              Max(Get(vascular_metrics, "width_variation_index", 0),
                                  Get(vascular_metrics, "hemorrhage_score", 0))),
                          Get(base_risk_assessment, "risk_level", "Minimal"),
                          combined_score),
         combined_risk_score |-> combined_score,
         risk_score |-> base_score]

UpdatedAssessment(updated_systemic, vascular_metrics, base_risk_assessment) ==
    LET tortuosity == Get(vascular_metrics, "tortuosity_index", 0)
        width_var  == Get(vascular_metrics, "width_variation_index", 0)
        hemorrhage == Get(vascular_metrics, "hemorrhage_score", 0)
        current_level == Get(base_risk_assessment, "risk_level", "Minimal")
        base_score == Get(base_risk_assessment, "risk_score", 0)
        combined_score ==
            ReblendCombined(base_score, MaxSystemicScore(updated_systemic))
        max_vascular == Max(tortuosity, Max(width_var, hemorrhage))
        new_level == ReblendLevel(max_vascular, current_level, combined_score)
    IN  Put(Put(Put(base_risk_assessment, "risk_level", new_level),
                "combined_risk_score", combined_score),
            "risk_score", base_score)

\* The pair (updated_systemic, risk_assessment) the function returns.
EnrichSystemicRisksWithVascular(systemic_risks, vascular_metrics, base_risk_assessment) ==
    IF DOMAIN systemic_risks = {} \/ DOMAIN vascular_metrics = {}
    THEN <<systemic_risks, base_risk_assessment>>
    ELSE LET updated == UpdatedSystemic(systemic_risks, vascular_metrics)
         IN  <<updated,
               UpdatedAssessment(updated, vascular_metrics, base_risk_assessment)>>

(***************************************************************************)
(* Python's random module (main.py 1001, 1015-1029).  The module keeps one   *)
(* process-wide generator.  The model keeps what matters about it: seed(a)   *)
(* discards the state and sets one that depends on a alone, and each draw    *)
(* is a function of the state and advances it.  The Mersenne Twister is      *)
(* replaced by a congruential generator with RandomPeriod states; a          *)
(* generator never seeded is in the state -1 and takes its seed from the     *)
(* operating system at its first draw.                                       *)
(***************************************************************************)
RandomPeriod == 4

RandomStates == 0..(RandomPeriod - 1)

\* random.seed(a)
RandomSeedKept(state, a) == IF state < 0 THEN a % RandomPeriod ELSE state

RandomSeed(state, a) == a % RandomPeriod

\* the state after one draw
RandomNext(state) == (state * 5 + 3) % RandomPeriod

\* random.randint(a, b), drawn in the state `state` (already advanced)
RandomRandint(state, a, b) == a + (state % (b - a + 1))

\* random.uniform(a, b), in units of 1/One
RandomUniform(state, a, b) == a + ((b - a) * state) \div (RandomPeriod - 1)

(***************************************************************************)
(* generate_annotations (main.py 999-1038)                                 *)
(***************************************************************************)
\* lines 1010-1013
RegionsToDrawNoBaseCap(abnormalities_count, hemorrhage_score) ==
    Max(0, Min(6, abnormalities_count
                    + (IF hemorrhage_score >= T(4) THEN 1 ELSE 0)))

RegionsToDraw(abnormalities_count, hemorrhage_score) ==
    LET base_regions == Min(abnormalities_count, 5)
        extra_from_hemorrhage == IF hemorrhage_score >= T(4) THEN 1 ELSE 0
    IN  Max(0, Min(6, base_regions + extra_from_hemorrhage))

\* line 1029
RegionConfidence(hemorrhage_score, jitter) ==
    Max(T(4), Min(T(9), T(5) + hemorrhage_score \div 2 + jitter))

\* The loop of lines 1017-1030 from the generator state `state`: the
\* regions in the order they are appended, and the state the loop leaves.
RECURSIVE DrawRegions(_, _, _, _, _)
DrawRegions(state, regions_to_draw, hemorrhage_score, width, height) ==
    IF regions_to_draw = 0
    THEN [abnormal_regions |-> <<>>, state |-> state]
    ELSE LET s1 == RandomNext(state)
             s2 == RandomNext(s1)
             s3 == RandomNext(s2)
             s4 == RandomNext(s3)
             s5 == RandomNext(s4)
             region ==
                 [x |-> RandomRandint(s1, 50, Max(51, width - 100)),
                  y |-> RandomRandint(s2, 50, Max(51, height - 100)),
                  width |-> RandomRandint(s3, 30, 80),
                  height |-> RandomRandint(s4, 30, 80),
                  type |-> "potential_abnormality",
                  confidence |->
                      RegionConfidence(hemorrhage_score,
                          RandomUniform(s5, 0 - H(5), H(5)))]
             rest == DrawRegions(s5, regions_to_draw - 1, hemorrhage_score,
                                 width, height)
         IN  [abnormal_regions |-> <<region>> \o rest.abnormal_regions,
              state |-> rest.state]

\* The call, entered with the generator in `state`: the dictionary it
\* returns, and the state it leaves the generator in.
GenerateAnnotations(state, features, width, height) ==
    LET abnormalities_count == Get(features, "potential_abnormalities_count", 0)
        vascular_metrics == Get(features, "vascular_metrics", NoDict)
        hemorrhage_score == Get(vascular_metrics, "hemorrhage_score", 0)
        drawn == DrawRegions(RandomSeed(state, 42),
                     RegionsToDraw(abnormalities_count, hemorrhage_score),
                     hemorrhage_score, width, height)
    IN  [annotations |->
             [abnormal_regions |-> drawn.abnormal_regions,
              image_dimensions |-> [width |-> width, height |-> height]],
         random_state |-> drawn.state]

(***************************************************************************)
(* perform_analysis, step 7a (main.py 442-476): has_positive_condition     *)
(***************************************************************************)
HasPositiveCondition(predicted_class, confidence, conditions, risk_assessment) ==
    \/ predicted_class # "NORMAL"
    \/ Get(risk_assessment, "primary_condition", "NORMAL") # "NORMAL"
    \/ \E c \in DOMAIN conditions : conditions[c].positive /\ c # "NORMAL"
    \/ confidence > T(5) /\ predicted_class # "NORMAL"

(***************************************************************************)
(* perform_analysis, step 9b (main.py 562-587): the fallback region        *)
(***************************************************************************)
FallbackRegion(width, height, risk_assessment) ==
    LET box_w == Max(40, width \div 4)
        box_h == Max(40, height \div 4)
    IN  [x |-> Max(0, (width - box_w) \div 2),
         y |-> Max(0, (height - box_h) \div 2),
         width |-> box_w,
         height |-> box_h,
         type |-> "suspected_region",
         confidence |->
             Get(risk_assessment, "combined_risk_score",
                 Get(risk_assessment, "risk_score", T(5)))]

\* The annotations the AnalysisResult carries.
FinalAnnotationsAlways(annotations, has_positive_condition, width, height, risk_assessment) ==
    IF annotations.abnormal_regions = <<>>
    THEN [annotations EXCEPT !.abnormal_regions =
              <<FallbackRegion(width, height, risk_assessment)>>]
    ELSE annotations

FinalAnnotations(annotations, has_positive_condition, width, height, risk_assessment) ==
    IF has_positive_condition /\ annotations.abnormal_regions = <<>>
    THEN [annotations EXCEPT !.abnormal_regions =
              <<FallbackRegion(width, height, risk_assessment)>>]
    ELSE annotations

(***************************************************************************)
(* Inputs                                                                  *)
(***************************************************************************)
\* The grid of probabilities: multiples of 0.05.
ProbStep == One \div 20

ProbSteps == One \div ProbStep

\* What softmax can return: a vector over the four classes, in [0,1],
\* summing to 1.
ClassifierOutputs ==
    {[c \in ClassSet |->
        IF c = "CNV" THEN t[1] * ProbStep
        ELSE IF c = "DME" THEN t[2] * ProbStep
        ELSE IF c = "DRUSEN" THEN t[3] * ProbStep
        ELSE (ProbSteps - t[1] - t[2] - t[3]) * ProbStep] :
     t \in {u \in (0..ProbSteps) \X (0..ProbSteps) \X (0..ProbSteps) :
                u[1] + u[2] + u[3] <= ProbSteps}}

\* What _mock_predict can return: clip(base + noise, 0.01, 0.99) / sum, a
\* normalised vector with no zero entry.
MockOutputs == {p \in ClassifierOutputs : \A c \in ClassSet : p[c] > 0}

\* The raw features an image can give.
VesselDensities == {0, H(2), H(20)}

BlobCounts == {0, 5, MaxBlobs}

TextureVariances == {0, 50, 500}

\* Which sub-computations of one feature extraction raise: none, or one.
FailureCases == {{}} \cup {{step} : step \in FeatureSteps}

(***************************************************************************)
(* State                                                                   *)
(***************************************************************************)
VARIABLES
    pc,                     \* the position of perform_analysis
    model_service,          \* the global model_service (created: not None)
    probs,                  \* the classifier's output (NoDict: fallback)
    model_results,          \* what predict / generate_fallback_results gave
    features,               \* analyze_image_features
    systemic_health_risks,  \* the local of perform_analysis
    risk_assessment,        \* the local of perform_analysis
    result,                 \* the AnalysisResult returned
    image,                  \* what the request's image is (download_image)
    validation,             \* validate_image / assess_image_quality
    exception,              \* the exception in flight (NoDict: none)
    response,               \* what analyze_image gave the client
    random_state,           \* the generator of Python's random module
    np_random_state,        \* the generator of numpy.random
    requests,               \* the analysis requests in flight, by id
    batch                   \* the position of analyze_images_batch

vars == <<pc, model_service, probs, model_results, features,
          systemic_health_risks, risk_assessment, result,
          image, validation, exception, response,
          random_state, np_random_state, requests, batch>>

\* The process-wide generators, and the variables of the concurrent and of
\* the batch front end.
generator_vars == <<random_state, np_random_state>>

server_vars == <<requests, batch>>

\* The variables of the image front end and of the HTTP layer.
io_vars == <<image, validation, exception, response>>

request_vars == <<probs, model_results, features, systemic_health_risks,
                  risk_assessment, result>>

Init ==
    /\ pc = "idle"
    /\ model_service =
          [created |-> FALSE, model_loaded |-> FALSE, use_mock |-> FALSE]
    /\ probs = NoDict
    /\ model_results = NoDict
    /\ features = NoDict
    /\ systemic_health_risks = NoDict
    /\ risk_assessment = NoDict
    /\ result = NoDict
    /\ image = NoDict
    /\ validation = NoDict
    /\ exception = NoDict
    /\ response = NoDict
    /\ random_state = 0 - 1
    /\ np_random_state = 0 - 1
    /\ requests = NoDict
    /\ batch = NoDict

(***************************************************************************)
(* startup_event / load_model_endpoint: create the service if there is     *)
(* none and call load_model, which ends with model_loaded = True and       *)
(* use_mock telling whether a real model is in place.                      *)
(***************************************************************************)
LoadModel ==
    /\ pc = "idle"
    /\ \E loaded_real \in BOOLEAN :
          model_service' = [created |-> TRUE, model_loaded |-> TRUE,
                            use_mock |-> ~loaded_real]
    /\ UNCHANGED <<pc, request_vars, io_vars, generator_vars, server_vars>>

(***************************************************************************)
(* perform_analysis, step 3-5: model inference or fallback, and the        *)
(* extraction of the locals.                                               *)
(***************************************************************************)
TakeResults(p, results) ==
    /\ probs' = p
    /\ model_results' = results
    /\ systemic_health_risks' = Get(results, "systemic_health_risks", NoDict)
    /\ risk_assessment' = Get(results, "risk_assessment", NoDict)
    /\ pc' = "predicted"
    /\ UNCHANGED <<generator_vars, server_vars, model_service, features, result, io_vars>>

\* predict on a loaded real model
PredictReal ==
    /\ pc = "idle"
    /\ model_service.created
    /\ model_service.model_loaded /\ ~model_service.use_mock
    /\ \E p \in ClassifierOutputs : TakeResults(p, BuildClinicalResults(p))

\* predict in mock mode (_mock_predict): any vector its noise can give.  The
\* state of the generator it draws from is followed in SpecConcurrent only.
PredictMock ==
    /\ pc = "idle"
    /\ model_service.created
    /\ model_service.model_loaded /\ model_service.use_mock
    /\ \E p \in MockOutputs : TakeResults(p, BuildClinicalResults(p))

\* no service, or predict raised: generate_fallback_results
PredictFallback ==
    /\ pc = "idle"
    /\ \/ ~model_service.created
       \/ ~model_service.model_loaded
       \/ ~model_service.use_mock        \* the real model's inference raised
    /\ TakeResults(NoDict, GenerateFallbackResults)

(***************************************************************************)
(* step 7: analyze_image_features                                          *)
(***************************************************************************)
ExtractFeatures ==
    /\ pc = "predicted"
    /\ \E vd \in VesselDensities, n \in BlobCounts, tv \in TextureVariances,
          failed \in FailureCases :
          features' = AnalyzeImageFeaturesExcept(failed, vd, n, tv)
    /\ pc' = "featured"
    /\ UNCHANGED <<generator_vars, server_vars, model_service, probs, model_results, systemic_health_risks,
                   risk_assessment, result, io_vars>>

(***************************************************************************)
(* step 7c: the re-blend, when both dictionaries are non-empty             *)
(***************************************************************************)
Enrich ==
    /\ pc = "featured"
    /\ LET vascular_metrics == Get(features, "vascular_metrics", NoDict)
           out == EnrichSystemicRisksWithVascular(
                      systemic_health_risks, vascular_metrics, risk_assessment)
       IN  /\ systemic_health_risks' = out[1]
           /\ risk_assessment' = out[2]
    /\ pc' = "enriched"
    /\ UNCHANGED <<generator_vars, server_vars, model_service, probs, model_results, features, result,
                   io_vars>>

(***************************************************************************)
(* step 10: the AnalysisResult                                             *)
(***************************************************************************)
\* The fields of the AnalysisResult that the analysis decides (ids, urls,
\* timestamps, findings and annotations are left out here).
BuildAnalysisResult(results, feats, systemic, assessment, valid) ==
    [predicted_class |-> Get(results, "predicted_class", "NORMAL"),
     confidence |-> Get(results, "confidence", T(5)),
     risk_level |-> Get(assessment, "risk_level", "Low"),
     risk_score |-> Get(assessment, "risk_score", 0),
     conditions |-> Get(results, "conditions", NoDict),
     risk_assessment |-> assessment,
     recommendations |-> Get(results, "recommendations", <<>>),
     systemic_health_risks |-> systemic,
     vascular_metrics |-> Get(feats, "vascular_metrics", NoDict),
     image_quality |->
        [score |-> Get(valid, "quality_score", 0),
         is_valid |-> Get(valid, "is_valid", FALSE),
         issues |-> Get(valid, "issues", <<>>)]]

Respond ==
    /\ pc = "enriched"
    /\ result' = BuildAnalysisResult(model_results, features,
                                     systemic_health_risks, risk_assessment,
                                     validation)
    /\ pc' = "done"
    /\ UNCHANGED <<generator_vars, server_vars, model_service, probs, model_results, features,
                   systemic_health_risks, risk_assessment, io_vars>>

\* The request is over; the next one starts with fresh locals.
NextRequest ==
    /\ pc = "done"
    /\ pc' = "idle"
    /\ probs' = NoDict
    /\ model_results' = NoDict
    /\ features' = NoDict
    /\ systemic_health_risks' = NoDict
    /\ risk_assessment' = NoDict
    /\ result' = NoDict
    /\ UNCHANGED <<generator_vars, server_vars, model_service, io_vars>>

Next ==
    \/ LoadModel
    \/ PredictReal
    \/ PredictMock
    \/ PredictFallback
    \/ ExtractFeatures
    \/ Enrich
    \/ Respond
    \/ NextRequest

Spec == Init /\ [][Next]_vars

(***************************************************************************)
(* enrich_systemic_risks_with_vascular called on its own, with any         *)
(* systemic scores in [0,1], any vascular metrics in [0,1]^3 and any base  *)
(* assessment: the arguments are kept in model_results and features, the   *)
(* returned pair in systemic_health_risks and risk_assessment.             *)
(***************************************************************************)
ScoreGrid == {0, H(45), H(80), One}

IndexGrid == {0, T(4), T(7), One}

VascularVectors ==
    {[tortuosity_index |-> t, width_variation_index |-> w,
      microaneurysm_count |-> 0, hemorrhage_score |-> h] :
     t \in IndexGrid, w \in IndexGrid, h \in IndexGrid}

SystemicArguments ==
    {[k \in SystemicSet |->
        [risk_score |-> s[k], risk_level |-> SystemicBand(s[k]),
         contributing_conditions |-> <<>>]] :
     s \in [SystemicSet -> ScoreGrid]}

BaseAssessments ==
    {[risk_level |-> b[1],
      risk_score |-> b[2],
      combined_risk_score |-> b[2],
      primary_condition |-> b[3],
      positive_conditions |-> IF b[3] = "NORMAL" THEN <<>> ELSE <<b[3]>>,
      high_systemic_risks |-> <<>>,
      urgency |-> CONDITION_URGENCY[b[3]],
      requires_referral |-> RequiresReferral(b[1], b[3]),
      requires_systemic_followup |-> FALSE] :
     b \in {<<"Minimal", T(2), "NORMAL">>, <<"Low", H(35), "CNV">>,
            <<"Medium", H(45), "DME">>, <<"High", T(8), "CNV">>}}

CallEnrich ==
    /\ pc = "idle"
    /\ \E systemic_risks \in SystemicArguments,
          vascular_metrics \in VascularVectors,
          base_risk_assessment \in BaseAssessments :
          LET out == EnrichSystemicRisksWithVascular(
                         systemic_risks, vascular_metrics, base_risk_assessment)
          IN  /\ model_results' =
                    [systemic_health_risks |-> systemic_risks,
                     risk_assessment |-> base_risk_assessment]
              /\ features' = [vascular_metrics |-> vascular_metrics]
              /\ systemic_health_risks' = out[1]
              /\ risk_assessment' = out[2]
    /\ pc' = "returned"
    /\ UNCHANGED <<generator_vars, server_vars, model_service, probs, result, io_vars>>

\* A direct call with no systemic risks or no vascular metrics (lines
\* 927-928).
CallEnrichEmpty ==
    /\ pc = "idle"
    /\ \E systemic_risks \in SystemicArguments \cup {NoDict},
          vascular_metrics \in VascularVectors \cup {NoDict},
          base_risk_assessment \in BaseAssessments :
          LET out == EnrichSystemicRisksWithVascular(
                         systemic_risks, vascular_metrics, base_risk_assessment)
          IN  /\ systemic_risks = NoDict \/ vascular_metrics = NoDict
              /\ model_results' =
                    [systemic_health_risks |-> systemic_risks,
                     risk_assessment |-> base_risk_assessment]
              /\ features' = [vascular_metrics |-> vascular_metrics]
              /\ systemic_health_risks' = out[1]
              /\ risk_assessment' = out[2]
    /\ pc' = "returned_inputs"
    /\ UNCHANGED <<generator_vars, server_vars, model_service, probs, result, io_vars>>

ReturnEnrich ==
    /\ pc \in {"returned", "returned_inputs"}
    /\ pc' = "idle"
    /\ model_results' = NoDict
    /\ features' = NoDict
    /\ systemic_health_risks' = NoDict
    /\ risk_assessment' = NoDict
    /\ UNCHANGED <<generator_vars, server_vars, model_service, probs, result, io_vars>>

NextEnrich == CallEnrich \/ CallEnrichEmpty \/ ReturnEnrich

SpecEnrich == Init /\ [][NextEnrich]_vars

(***************************************************************************)
(* The methods of ImageProcessor called on their own: the arguments are    *)
(* kept in image, what validate_image / assess_image_quality returned in   *)
(* validation, what analyze_image_features returned in features.           *)
(***************************************************************************)
\* The metrics of a grey 8-bit image.  A single-colour image has sharpness,
\* contrast and dynamic range 0; the standard deviation of an image is at
\* most half its range; a mean of 0 or 255 is a single-colour image.
QualityMetrics ==
    {m \in [sharpness : {0, 20, 100, 500, 2000},
            contrast : {0, 10, 20, 50, 100},
            brightness : {0, 40, 60, 128, 220, 255},
            dynamic_range : {0, 90, 255}] :
        /\ (m.dynamic_range = 0) => (m.sharpness = 0)
        /\ (m.dynamic_range = 0) <=> (m.contrast = 0)
        /\ 2 * m.contrast <= m.dynamic_range
        /\ (m.brightness \in {0, 255}) => (m.dynamic_range = 0)}

\* Widths and heights of a decoded image.
Dimensions == {100, 256, 1024, 4096, 5000}

\* Raw features over their whole range: an edge fraction in [0,1], a blob
\* count and a local variance of grey levels.
FeatureDensities == {0, H(2), H(10), H(20), H(50), One}

FeatureBlobCounts == {0, 5, 50, MaxBlobs}

FeatureVariances == {0, 50, 250, 500, 5000}

CallAssessImageQuality ==
    /\ pc = "idle"
    /\ \E metrics \in QualityMetrics, raises \in BOOLEAN :
          /\ image' = [call |-> "assess_image_quality", metrics |-> metrics,
                       raises |-> raises]
          /\ validation' =
                [quality_score |-> AssessImageQuality(metrics, raises)]
    /\ pc' = "returned"
    /\ UNCHANGED <<generator_vars, server_vars, model_service, request_vars, exception, response>>

CallValidateImage ==
    /\ pc = "idle"
    /\ \E width \in Dimensions, height \in Dimensions,
          metrics \in QualityMetrics :
          /\ image' = [call |-> "validate_image", width |-> width,
                       height |-> height, metrics |-> metrics]
          /\ validation' = ValidateImage(width, height, metrics)
    /\ pc' = "returned"
    /\ UNCHANGED <<generator_vars, server_vars, model_service, request_vars, exception, response>>

CallAnalyzeImageFeatures ==
    /\ pc = "idle"
    /\ \E failed \in SUBSET FeatureSteps, vd \in FeatureDensities,
          n \in FeatureBlobCounts, tv \in FeatureVariances :
          /\ image' = [call |-> "analyze_image_features", failed |-> failed,
                       vessel_density |-> vd,
                       potential_abnormalities_count |-> n,
                       texture_variance |-> tv]
          /\ features' = AnalyzeImageFeaturesExcept(failed, vd, n, tv)
    /\ pc' = "returned"
    /\ UNCHANGED <<generator_vars, server_vars, model_service, probs, model_results, systemic_health_risks,
                   risk_assessment, result, validation, exception, response>>

ReturnImage ==
    /\ pc = "returned"
    /\ pc' = "idle"
    /\ image' = NoDict
    /\ validation' = NoDict
    /\ features' = NoDict
    /\ UNCHANGED <<generator_vars, server_vars, model_service, probs, model_results, systemic_health_risks,
                   risk_assessment, result, exception, response>>

NextImage ==
    \/ CallAssessImageQuality
    \/ CallValidateImage
    \/ CallAnalyzeImageFeatures
    \/ ReturnImage

SpecImage == Init /\ [][NextImage]_vars

(***************************************************************************)
(* analyze_image as a whole request: download, validation, the analysis    *)
(* (steps 3-10 of perform_analysis in one step) and the HTTP answer.       *)
(***************************************************************************)
\* The pictures a request can point at.
RequestMetrics ==
    {[sharpness |-> 0, contrast |-> 0, brightness |-> 128,
      dynamic_range |-> 0],
     [sharpness |-> 20, contrast |-> 10, brightness |-> 60,
      dynamic_range |-> 90],
     [sharpness |-> 500, contrast |-> 50, brightness |-> 128,
      dynamic_range |-> 255]}

RequestDimensions == {100, 256, 5000}

Sources ==
    [http_ok : BOOLEAN,
     size_bytes : {1024 * 1024, MAX_IMAGE_SIZE, MAX_IMAGE_SIZE + 1},
     decodable : BOOLEAN,
     width : RequestDimensions, height : RequestDimensions,
     metrics : RequestMetrics]

\* A few classifier outputs (every entry above 0, so that the mock can
\* return them too) and a few feature vectors.
RequestOutputs ==
    {p \in MockOutputs :
        <<p["CNV"], p["DME"], p["DRUSEN"]>> \in
            {<<H(45), T(2), H(15)>>, <<H(5), H(5), H(5)>>,
             <<T(1), T(1), T(1)>>}}

RequestFeatures ==
    {AnalyzeImageFeaturesExcept({}, vd, 0, 0) : vd \in {0, H(20)}}

\* step 1: download_image; image keeps the source.
DownloadStep ==
    /\ pc = "idle"
    /\ \E source \in Sources :
          LET got == DownloadImage(source)
          IN  /\ image' = source
              /\ IF got.raised
                 THEN pc' = "raised" /\ exception' = got.exception
                 ELSE pc' = "downloaded" /\ exception' = NoDict
    /\ UNCHANGED <<generator_vars, server_vars, model_service, request_vars, validation, response>>

\* step 2: validate_image; an invalid image is only logged.
ValidateStep ==
    /\ pc = "downloaded"
    /\ validation' = ValidateImage(image.width, image.height, image.metrics)
    /\ pc' = "validated"
    /\ UNCHANGED <<generator_vars, server_vars, model_service, request_vars, image, exception, response>>

\* steps 3-10 without the download: inference or fallback, features, the
\* planned annotations (which reseed the random module), the re-blend, the
\* fallback region and the AnalysisResult; or an exception of some internal step
\* that has no handler of its own (preprocess_image, generate_findings, the
\* construction of the AnalysisResult).
AnalysisStep ==
    /\ pc = "validated"
    /\ \/ \E results \in
                {BuildClinicalResults(p) : p \in
                    IF model_service.created /\ model_service.model_loaded
                    THEN RequestOutputs ELSE {}}
                \cup (IF model_service.created /\ model_service.model_loaded
                         /\ model_service.use_mock
                      THEN {} ELSE {GenerateFallbackResults}),
             feats \in RequestFeatures :
             LET out == EnrichSystemicRisksWithVascular(
                            Get(results, "systemic_health_risks", NoDict),
                            Get(feats, "vascular_metrics", NoDict),
                            Get(results, "risk_assessment", NoDict))
                 planned == GenerateAnnotations(random_state, feats,
                                image.width, image.height)
                 annotations ==
                     FinalAnnotations(planned.annotations,
                         HasPositiveCondition(results.predicted_class,
                             results.confidence, results.conditions,
                             Get(results, "risk_assessment", NoDict)),
                         image.width, image.height, out[2])
             IN  /\ model_results' = results
                 /\ features' = feats
                 /\ systemic_health_risks' = out[1]
                 /\ risk_assessment' = out[2]
                 /\ result' = Put(BuildAnalysisResult(results, feats, out[1],
                                                      out[2], validation),
                                  "annotations", annotations)
                 /\ random_state' = planned.random_state
                 /\ pc' = "analysed"
                 /\ UNCHANGED exception
       \/ /\ exception' = [type |-> "cv2.error",
                           message |-> <<"OpenCV resize assertion failed">>]
          /\ pc' = "raised"
          /\ UNCHANGED <<model_results, features, systemic_health_risks,
                         risk_assessment, result, random_state>>
    /\ UNCHANGED <<np_random_state, server_vars, model_service, probs, image,
                   validation, response>>

\* analyze_image returns the result of perform_analysis.
ReturnResult ==
    /\ pc = "analysed"
    /\ response' = [status_code |-> 200, body |-> result]
    /\ pc' = "responded"
    /\ UNCHANGED <<generator_vars, server_vars, model_service, request_vars, image, validation, exception>>

\* analyze_image's except branch.
RaiseHTTPException ==
    /\ pc = "raised"
    /\ response' = HTTPExceptionFor(exception)
    /\ pc' = "responded"
    /\ UNCHANGED <<generator_vars, server_vars, model_service, request_vars, image, validation, exception>>

FinishRequest ==
    /\ pc = "responded"
    /\ pc' = "idle"
    /\ probs' = NoDict
    /\ model_results' = NoDict
    /\ features' = NoDict
    /\ systemic_health_risks' = NoDict
    /\ risk_assessment' = NoDict
    /\ result' = NoDict
    /\ image' = NoDict
    /\ validation' = NoDict
    /\ exception' = NoDict
    /\ response' = NoDict
    /\ UNCHANGED <<generator_vars, server_vars, model_service>>

NextRequestStep ==
    \/ LoadModel
    \/ DownloadStep
    \/ ValidateStep
    \/ AnalysisStep
    \/ ReturnResult
    \/ RaiseHTTPException
    \/ FinishRequest

SpecRequest == Init /\ [][NextRequestStep]_vars

(***************************************************************************)
(* _generate_recommendations called on its own and followed rule by rule:  *)
(* the arguments are kept in model_results, the list being built in        *)
(* result.recommendations.  The arguments are what _assess_overall_risk    *)
(* and the re-blend can hand over: positive_conditions in class order,     *)
(* primary_condition one of them (NORMAL if there is none),                *)
(* requires_systemic_followup as computed from the systemic levels.        *)
(***************************************************************************)
PositiveLists ==
    {<<>>, <<"CNV">>, <<"DME">>, <<"DRUSEN">>, <<"CNV", "DME">>,
     <<"CNV", "DRUSEN">>, <<"DME", "DRUSEN">>, <<"CNV", "DME", "DRUSEN">>}

SystemicLevelArguments ==
    {NoDict} \cup
    {[k \in SystemicSet |->
        [risk_score |-> 0, risk_level |-> lv[k],
         contributing_conditions |-> <<>>]] :
     lv \in [SystemicSet -> {"Low", "Moderate", "High"}]}

AssessmentArguments(systemic_risks) ==
    {a \in [risk_level : {"Minimal", "Low", "Medium", "High"},
            primary_condition : ClassSet,
            positive_conditions : PositiveLists,
            requires_systemic_followup :
                {Len(HighSystemicLoop(systemic_risks, 1, <<>>)) > 0}] :
        /\ IF a.positive_conditions = <<>>
           THEN a.primary_condition = "NORMAL"
           ELSE \E i \in 1..Len(a.positive_conditions) :
                    a.positive_conditions[i] = a.primary_condition
        /\ (a.positive_conditions # <<>>) => (a.risk_level # "Minimal")}

\* The list so far followed by more lines.
Appended(lines) ==
    result' = [recommendations |-> result.recommendations \o lines]

CallRecommend ==
    /\ pc = "idle"
    /\ \E systemic_risks \in SystemicLevelArguments :
          \E assessment \in AssessmentArguments(systemic_risks) :
             model_results' = [risk_assessment |-> assessment,
                               systemic_health_risks |-> systemic_risks]
    /\ result' = [recommendations |-> <<>>]
    /\ pc' = "rec_start"
    /\ UNCHANGED <<generator_vars, server_vars, model_service, probs, features, systemic_health_risks,
                   risk_assessment, io_vars>>

\* lines 684-705: the healthy branch and its early return
RuleHealthy ==
    /\ pc = "rec_start"
    /\ HealthyBranch(model_results.risk_assessment)
    /\ Appended(HealthyLines(model_results.systemic_health_risks))
    /\ pc' = "returned"
    /\ UNCHANGED <<generator_vars, server_vars, model_service, probs, model_results, features,
                   systemic_health_risks, risk_assessment, io_vars>>

\* lines 707-743: the positive conditions
RuleConditions ==
    /\ pc = "rec_start"
    /\ ~HealthyBranch(model_results.risk_assessment)
    /\ LET positives == model_results.risk_assessment["positive_conditions"]
       IN  Appended(ConditionLines("CNV", positives)
                    \o ConditionLines("DME", positives)
                    \o ConditionLines("DRUSEN", positives))
    /\ pc' = "rec_systemic"
    /\ UNCHANGED <<generator_vars, server_vars, model_service, probs, model_results, features,
                   systemic_health_risks, risk_assessment, io_vars>>

\* lines 749-802: the systemic categories
RuleSystemic ==
    /\ pc = "rec_systemic"
    /\ LET systemic_risks == model_results.systemic_health_risks
       IN  Appended(SystemicLines("cardiovascular", systemic_risks)
                    \o SystemicLines("diabetes", systemic_risks)
                    \o SystemicLines("hypertension", systemic_risks)
                    \o SystemicLines("stroke", systemic_risks))
    /\ pc' = "rec_banner"
    /\ UNCHANGED <<generator_vars, server_vars, model_service, probs, model_results, features,
                   systemic_health_risks, risk_assessment, io_vars>>

\* lines 804-812: the urgency banner
RuleBanner ==
    /\ pc = "rec_banner"
    /\ Appended(UrgencyBanner(model_results.risk_assessment["risk_level"]))
    /\ pc' = "rec_summary"
    /\ UNCHANGED <<generator_vars, server_vars, model_service, probs, model_results, features,
                   systemic_health_risks, risk_assessment, io_vars>>

\* lines 814-827: the summary block and the return
RuleSummary ==
    /\ pc = "rec_summary"
    /\ Appended(SummaryBlock(model_results.systemic_health_risks,
                             model_results.risk_assessment))
    /\ pc' = "returned"
    /\ UNCHANGED <<generator_vars, server_vars, model_service, probs, model_results, features,
                   systemic_health_risks, risk_assessment, io_vars>>

ReturnRecommend ==
    /\ pc = "returned"
    /\ pc' = "idle"
    /\ model_results' = NoDict
    /\ result' = NoDict
    /\ UNCHANGED <<generator_vars, server_vars, model_service, probs, features, systemic_health_risks,
                   risk_assessment, io_vars>>

NextRecommend ==
    \/ CallRecommend
    \/ RuleHealthy
    \/ RuleConditions
    \/ RuleSystemic
    \/ RuleBanner
    \/ RuleSummary
    \/ ReturnRecommend

SpecRecommend == Init /\ [][NextRecommend]_vars

(***************************************************************************)
(* Direct calls of generate_annotations, with other users of the random    *)
(* module between them.  features and image hold the arguments of the      *)
(* latest call and result what it returned; response is the log of two     *)
(* calls: some earlier one and the latest, each with the generator state   *)
(* it was entered in.                                                      *)
(***************************************************************************)
AnnotationCounts == {0, 7}

HemorrhageScores == {T(4) - 1, T(4), One}

AnnotationFeatures ==
    {[potential_abnormalities_count |-> n,
      vascular_metrics |-> [hemorrhage_score |-> h]] :
        n \in AnnotationCounts, h \in HemorrhageScores}

ImageShapes == {[width |-> 100, height |-> 100], [width |-> 640, height |-> 480]}

CallGenerateAnnotations ==
    /\ pc = "idle"
    /\ \E feats \in AnnotationFeatures, shape \in ImageShapes :
          LET out == GenerateAnnotations(random_state, feats, shape.width,
                                         shape.height)
              call == [features |-> feats, image_shape |-> shape,
                       entry_state |-> random_state,
                       annotations |-> out.annotations]
          IN  /\ features' = feats
              /\ image' = shape
              /\ result' = out.annotations
              /\ random_state' = out.random_state
              /\ \/ response' = <<call>>
                 \/ /\ DOMAIN response # {}
                    /\ response' = <<response[1], call>>
    /\ UNCHANGED <<pc, model_service, probs, model_results,
                   systemic_health_risks, risk_assessment, validation,
                   exception, np_random_state, server_vars>>

\* Any other code of the process that seeds the random module or draws
\* from it.
OtherRandomCall ==
    /\ pc = "idle"
    /\ \/ \E a \in RandomStates : random_state' = RandomSeed(random_state, a)
       \/ \E seeded \in (IF random_state < 0 THEN RandomStates
                         ELSE {random_state}) :
             random_state' = RandomNext(seeded)
    /\ UNCHANGED <<pc, model_service, request_vars, io_vars, np_random_state,
                   server_vars>>

NextAnnotate ==
    \/ CallGenerateAnnotations
    \/ OtherRandomCall

SpecAnnotate == Init /\ [][NextAnnotate]_vars

(***************************************************************************)
(* RetinalModelService used directly: __init__, load_model, predict and    *)
(* predict_batch (model_service.py 130-301, 339-388, 874-954).  The        *)
(* service record also keeps whether PyTorch could be imported and how the *)
(* most recent load_model call ended ("never": no call yet); response      *)
(* holds the latest call and what it returned or raised.                   *)
(***************************************************************************)
\* __init__ (lines 130-151)
ConstructService ==
    /\ pc = "idle"
    /\ ~model_service.created
    /\ \E pytorch_available \in BOOLEAN :
          model_service' = [created |-> TRUE, model_loaded |-> FALSE,
                            use_mock |-> ~pytorch_available,
                            pytorch_available |-> pytorch_available,
                            last_load |-> "never"]
    /\ UNCHANGED <<pc, request_vars, io_vars, generator_vars, server_vars>>

\* How a load_model call can end: without PyTorch (lines 164-169), with
\* the local checkpoint loaded (209-215), with the hub model loaded
\* (279-291), or in the outer except branch (295-301).
LoadOutcomes(service) ==
    IF service.pytorch_available THEN {"local", "hub", "failed"}
    ELSE {"no_pytorch"}

\* The service after load_model ended with `outcome`.
LoadModelResultKeepingMode(service, outcome) == [service EXCEPT !.model_loaded = TRUE, !.use_mock = service.use_mock /\ outcome \notin {"local", "hub"}, !.last_load = outcome]

LoadModelResult(service, outcome) ==
    [service EXCEPT !.model_loaded = TRUE,
                    !.use_mock = outcome \notin {"local", "hub"},
                    !.last_load = outcome]

CallLoadModel ==
    /\ pc = "idle"
    /\ model_service.created
    /\ \E outcome \in LoadOutcomes(model_service) :
          model_service' = LoadModelResult(model_service, outcome)
    /\ response' = [call |-> "load_model", raised |-> "none", returned |-> TRUE]
    /\ UNCHANGED <<pc, request_vars, image, validation, exception,
                   generator_vars, server_vars>>

\* predict (lines 339-388) on an image the classifier maps to
\* `probabilities`; inference_raises: the real model's forward pass raises.
Predict(service, probabilities, inference_raises) ==
    IF ~service.model_loaded
    THEN [raised |-> "ValueError", message |-> "Model not loaded"]
    ELSE IF service.use_mock
    THEN [raised |-> "none", path |-> "mock",
          results |-> BuildClinicalResults(probabilities)]
    ELSE IF inference_raises
    THEN [raised |-> "RuntimeError", message |-> "inference"]
    ELSE [raised |-> "none", path |-> "real",
          results |-> BuildClinicalResults(probabilities)]

\* What predict_batch keeps of one image here: the class and its confidence.
BatchEntry(probabilities) ==
    LET clinical == BuildClinicalResults(probabilities)
    IN  [predicted_class |-> clinical.predicted_class,
         confidence |-> clinical.confidence]

\* predict_batch (lines 874-954): one entry per image, an error entry for
\* the images in `failing` on the real path.
PredictBatch(service, images, failing) ==
    IF ~service.model_loaded
    THEN [raised |-> "ValueError", message |-> "Model not loaded"]
    ELSE IF service.use_mock \/ ~service.pytorch_available
    THEN [raised |-> "none", path |-> "mock",
          results |-> [i \in DOMAIN images |->
                          BatchEntry(images[i])]]
    ELSE [raised |-> "none", path |-> "real",
          results |-> [i \in DOMAIN images |->
                          IF i \in failing THEN [error |-> "preprocess or inference"]
                          ELSE BatchEntry(images[i])]]

CallPredict ==
    /\ pc = "idle"
    /\ model_service.created
    /\ \E p \in RequestOutputs, inference_raises \in BOOLEAN :
          response' = [call |-> "predict"]
                          @@ Predict(model_service, p, inference_raises)
    /\ UNCHANGED <<pc, model_service, request_vars, image, validation,
                   exception, generator_vars, server_vars>>

CallPredictBatch ==
    /\ pc = "idle"
    /\ model_service.created
    /\ \E images \in UNION {[1..n -> RequestOutputs] : n \in 1..3} :
          \E failing \in SUBSET (DOMAIN images) :
             response' = [call |-> "predict_batch"]
                             @@ PredictBatch(model_service, images, failing)
    /\ UNCHANGED <<pc, model_service, request_vars, image, validation,
                   exception, generator_vars, server_vars>>

NextService ==
    \/ ConstructService
    \/ CallLoadModel
    \/ CallPredict
    \/ CallPredictBatch

SpecService == Init /\ [][NextService]_vars

(***************************************************************************)
(* analyze_images_batch (main.py 298-372).  An item is its image_url and   *)
(* whether analyze_image succeeds on it; batch holds the items, the loop   *)
(* index, the two lists and the number of analyze_image calls made.        *)
(* MAX_BATCH_SIZE is read from the environment (200 by default).           *)
(***************************************************************************)
MaxBatchSize == 3

BatchItems == [image_url : {"a.png", "b.png"}, analysable : BOOLEAN]

\* lines 306-318: the two rejections
BatchRejected(items) == Len(items) = 0 \/ Len(items) > MaxBatchSize

\* One turn of the loop (lines 327-348) on the item at index batch.idx:
\* analyze_image returns a result, or raises the HTTPException 500 that
\* the loop turns into an entry of errors.
AfterItemStoppingAtError(b) == LET item == b.items[b.idx + 1] IN IF item.analysable THEN [b EXCEPT !.idx = @ + 1, !.analysed = @ + 1, !.results = Append(@, [image_url |-> item.image_url])] ELSE [b EXCEPT !.idx = Len(b.items), !.analysed = @ + 1, !.errors = Append(@, [index |-> b.idx, image_url |-> item.image_url, status_code |-> 500])]

AfterItem(b) ==
    LET item == b.items[b.idx + 1]
    IN  IF item.analysable
        THEN [b EXCEPT !.idx = @ + 1, !.analysed = @ + 1,
                       !.results = Append(@, [image_url |-> item.image_url])]
        ELSE [b EXCEPT !.idx = @ + 1, !.analysed = @ + 1,
                       !.errors = Append(@, [index |-> b.idx,
                                             image_url |-> item.image_url,
                                             status_code |-> 500])]

CallAnalyzeImagesBatch ==
    /\ pc = "idle"
    /\ \E items \in UNION {[1..n -> BatchItems] : n \in 0..(MaxBatchSize + 1)} :
          /\ batch' = [items |-> items, idx |-> 0, analysed |-> 0,
                       results |-> <<>>, errors |-> <<>>]
          /\ IF BatchRejected(items)
             THEN /\ response' = [status_code |-> 400,
                                  detail |-> IF Len(items) = 0
                                             THEN "empty_list"
                                             ELSE "too_many_items"]
                  /\ pc' = "batch_rejected"
             ELSE /\ response' = NoDict
                  /\ pc' = "batch_loop"
    /\ UNCHANGED <<model_service, request_vars, image, validation, exception,
                   generator_vars, requests>>

AnalyzeBatchItem ==
    /\ pc = "batch_loop"
    /\ batch.idx < Len(batch.items)
    /\ batch' = AfterItem(batch)
    /\ UNCHANGED <<pc, model_service, request_vars, io_vars, generator_vars,
                   requests>>

\* lines 350-372: the summary and the response
FinishBatch ==
    /\ pc = "batch_loop"
    /\ batch.idx >= Len(batch.items)
    /\ response' = [status_code |-> 200,
                    summary |-> [total |-> Len(batch.items),
                                 success_count |-> Len(batch.results),
                                 failed_count |-> Len(batch.errors)],
                    results |-> batch.results,
                    errors |-> batch.errors]
    /\ pc' = "batch_done"
    /\ UNCHANGED <<model_service, request_vars, image, validation, exception,
                   generator_vars, server_vars>>

ReturnBatch ==
    /\ pc \in {"batch_rejected", "batch_done"}
    /\ pc' = "idle"
    /\ batch' = NoDict
    /\ response' = NoDict
    /\ UNCHANGED <<model_service, request_vars, image, validation, exception,
                   generator_vars, requests>>

NextBatch ==
    \/ CallAnalyzeImagesBatch
    \/ AnalyzeBatchItem
    \/ FinishBatch
    \/ ReturnBatch

SpecBatch == Init /\ [][NextBatch]_vars

(***************************************************************************)
(* Two analysis requests on one event loop.  perform_analysis awaits the   *)
(* download (main.py 398) and runs steps 2-10 without another await, so a  *)
(* request is two steps: it arrives and starts its download, and later it  *)
(* completes.  requests[r] holds the request's image, the generator state  *)
(* and the service it found on arrival, and its result.                    *)
(***************************************************************************)
\* _mock_predict (model_service.py 829-852): the noise is drawn from the
\* process-wide generator of numpy.random, which the call advances.  A
\* draw of np.random.normal(0, 0.05, 4) is one of -0.05, 0, 0.05 per class.
MockPredict(state) ==
    LET base == [CNV |-> T(1), DME |-> T(1), DRUSEN |-> H(15), NORMAL |-> H(65)]
        noise == [i \in 1..4 |-> H(5) * (((state + i) % 3) - 1)]
        clipped == [i \in 1..4 |->
                      Max(H(1), Min(H(99), base[OCT_CLASSES[i]] + noise[i]))]
        total == clipped[1] + clipped[2] + clipped[3] + clipped[4]
        index == [c \in ClassSet |-> CHOOSE i \in 1..4 : OCT_CLASSES[i] = c]
    IN  [results |->
             BuildClinicalResults(
                 [c \in ClassSet |-> (clipped[index[c]] * One) \div total]),
         np_random_state |-> RandomNext(state)]

\* numpy seeds its generator from the operating system when it is imported.
SeedNumpy ==
    /\ np_random_state < 0
    /\ np_random_state' \in RandomStates
    /\ UNCHANGED <<pc, model_service, request_vars, io_vars, random_state,
                   server_vars>>

\* Steps 3-10 of perform_analysis on a downloaded image, entered with the
\* numpy generator in `state`: what of the AnalysisResult depends on the
\* inference, and the generator state left behind.
AnalyseRequest(service, state, input) ==
    LET usable == service.created /\ service.model_loaded
        predicted ==
            IF usable /\ service.use_mock THEN MockPredict(state)
            ELSE [results |-> IF usable
                              THEN BuildClinicalResults(input.probabilities)
                              ELSE GenerateFallbackResults,
                  np_random_state |-> state]
        out == EnrichSystemicRisksWithVascular(
                   predicted.results.systemic_health_risks,
                   input.features.vascular_metrics,
                   predicted.results.risk_assessment)
    IN  [result |-> [predicted_class |-> predicted.results.predicted_class,
                     confidence |-> predicted.results.confidence,
                     risk_level |-> out[2]["risk_level"],
                     regions |-> Len(GenerateAnnotations(random_state,
                                        input.features, input.width,
                                        input.height).annotations.abnormal_regions)],
         np_random_state |-> predicted.np_random_state]

\* The request arrives and awaits its download.
ArriveRequest(r) ==
    /\ np_random_state >= 0
    /\ r \notin DOMAIN requests
    /\ \E p \in RequestOutputs, feats \in RequestFeatures :
          requests' =
              Put(requests, r,
                  [status |-> "downloading",
                   input |-> [probabilities |-> p, features |-> feats,
                              width |-> MIN_DIMENSION, height |-> MIN_DIMENSION],
                   alone |-> AnalyseRequest(model_service, np_random_state,
                                [probabilities |-> p, features |-> feats,
                                 width |-> MIN_DIMENSION,
                                 height |-> MIN_DIMENSION]).result,
                   result |-> NoDict])
    /\ UNCHANGED <<pc, model_service, request_vars, io_vars, generator_vars,
                   batch>>

\* The download is over: steps 2-10 run to the end.
CompleteRequest(r) ==
    /\ r \in DOMAIN requests
    /\ requests[r].status = "downloading"
    /\ LET done == AnalyseRequest(model_service, np_random_state,
                                  requests[r].input)
       IN  /\ requests' = Put(requests, r,
                              [requests[r] EXCEPT !.status = "done",
                                                  !.result = done.result])
           /\ np_random_state' = done.np_random_state
           /\ random_state' =
                  GenerateAnnotations(random_state, requests[r].input.features,
                      requests[r].input.width,
                      requests[r].input.height).random_state
    /\ UNCHANGED <<pc, model_service, request_vars, io_vars, batch>>

\* The response has been sent.
DeliverRequest(r) ==
    /\ r \in DOMAIN requests
    /\ requests[r].status = "done"
    /\ requests' = [x \in (DOMAIN requests) \ {r} |-> requests[x]]
    /\ UNCHANGED <<pc, model_service, request_vars, io_vars, generator_vars,
                   batch>>

\* The service is loaded at startup, before the requests.
NextConcurrent ==
    \/ LoadModel /\ DOMAIN requests = {}
    \/ SeedNumpy
    \/ \E r \in {1, 2} : ArriveRequest(r)
    \/ \E r \in {1, 2} : CompleteRequest(r)
    \/ \E r \in {1, 2} : DeliverRequest(r)

SpecConcurrent == Init /\ [][NextConcurrent]_vars

(***************************************************************************)
(* Vocabulary of the properties                                            *)
(***************************************************************************)
\* A request whose probabilities came from a classifier (real or mock).
Classified == DOMAIN probs # {}

\* The pass-1 assessment and systemic risks: what predict returned.
Pass1Assessment == model_results["risk_assessment"]

Pass1Systemic == model_results["systemic_health_risks"]

\* The assessment and systemic risks of the AnalysisResult.
FinalAssessment == result["risk_assessment"]

FinalSystemic == result["systemic_health_risks"]

\* max(tortuosity_index, width_variation_index, hemorrhage_score)
MaxVascular(vm) ==
    Max(vm["tortuosity_index"],
        Max(vm["width_variation_index"], vm["hemorrhage_score"]))

\* The positive non-NORMAL conditions of a conditions dictionary.
PositiveSet(conditions) ==
    {c \in (DOMAIN conditions) \ {"NORMAL"} : conditions[c].positive}

\* The largest element of a finite set of numbers, 0 for the empty set.
SetMax(S) == IF S = {} THEN 0 ELSE CHOOSE x \in S : \A y \in S : y <= x

\* The probability of the highest positive non-NORMAL condition, 0 if none.
HighestPositive(conditions) ==
    SetMax({conditions[c].probability : c \in PositiveSet(conditions)})

\* The largest risk_score of a systemic dictionary.
HighestSystemic(systemic) ==
    SetMax({systemic[k]["risk_score"] : k \in DOMAIN systemic})

\* The sum of the contributions a contributing_conditions list records.
RECURSIVE SumContributions(_)
SumContributions(list) ==
    IF list = <<>> THEN 0
    ELSE Head(list).contribution + SumContributions(Tail(list))

(***************************************************************************)
(* C1.  Healthy override.                                                  *)
(***************************************************************************)
\* C1 as stated: whenever the NORMAL probability is above 0.7, the
\* risk_level of the returned assessment (after the re-blend) is Low or
\* Minimal and primary_condition is NORMAL.
C1_HealthyOverrideFinal ==
    (pc = "done" /\ Classified /\ probs["NORMAL"] > T(7))
        => /\ FinalAssessment["risk_level"] \in {"Low", "Minimal"}
           /\ FinalAssessment["primary_condition"] = "NORMAL"

\* C1 amended: for a classifier output with NORMAL above 0.7, pass 1 gives
\* risk_level Low and primary_condition NORMAL; after the re-blend
\* primary_condition is still NORMAL and risk_level is Low or Minimal when
\* every vascular index is below 0.7, and Medium (never High) when the
\* largest one is at least 0.7.
C1_HealthyOverrideAmended ==
    (pc = "done" /\ Classified /\ probs["NORMAL"] > T(7))
        => /\ Pass1Assessment["risk_level"] = "Low"
           /\ Pass1Assessment["primary_condition"] = "NORMAL"
           /\ FinalAssessment["primary_condition"] = "NORMAL"
           /\ IF MaxVascular(result["vascular_metrics"]) >= T(7)
              THEN FinalAssessment["risk_level"] = "Medium"
              ELSE FinalAssessment["risk_level"] \in {"Low", "Minimal"}

\* A healthy image (NORMAL = 0.9) with a vascular index at 0.7 or more is
\* returned at Medium.
C1_Witness ==
    /\ pc = "done" /\ Classified
    /\ probs["NORMAL"] = T(9)
    /\ MaxVascular(result["vascular_metrics"]) >= T(7)
    /\ Pass1Assessment["risk_level"] = "Low"
    /\ FinalAssessment["risk_level"] = "Medium"
    /\ FinalAssessment["primary_condition"] = "NORMAL"

(***************************************************************************)
(* C2.  Vascular escalation.                                               *)
(***************************************************************************)
\* C2: when pass 1 gave Minimal or Low, the level the re-blend returns is
\* never High, and it is exactly Medium when the largest vascular index is
\* at least 0.7.
C2_NeverDirectlyHigh ==
    (pc \in {"enriched", "done"}
        /\ Pass1Assessment["risk_level"] \in {"Minimal", "Low"})
        => /\ risk_assessment["risk_level"] # "High"
           /\ MaxVascular(features["vascular_metrics"]) >= T(7)
                => risk_assessment["risk_level"] = "Medium"

(***************************************************************************)
(* C3.  requires_referral.                                                 *)
(***************************************************************************)
\* C3: in the returned assessment requires_referral is true exactly when
\* the final risk_level is High or Medium and primary_condition is not
\* NORMAL.
C3_ReferralMatchesFinalLevel ==
    pc = "done"
        => (Get(FinalAssessment, "requires_referral", FALSE)
              <=> (/\ FinalAssessment["risk_level"] \in {"High", "Medium"}
                   /\ FinalAssessment["primary_condition"] # "NORMAL"))

(***************************************************************************)
(* C4.  The pass-2 boost.                                                  *)
(***************************************************************************)
\* The vascular vectors that raise one index of vm and keep the others.
RaiseOneIndex(vm) ==
    UNION {{[vm EXCEPT ![i] = x] : x \in {y \in IndexGrid : y > vm[i]}} :
           i \in {"tortuosity_index", "width_variation_index",
                  "hemorrhage_score"}}

\* The boosted score of category k for original score and vascular vector.
BoostedFor(k, original, vm) ==
    BoostedScore(original,
        VascularInfluence(k, vm["tortuosity_index"],
                          vm["width_variation_index"], vm["hemorrhage_score"]))

\* C4: for every category, every original score and every vascular vector
\* the boosted score lies between the original and min(1, original + 0.25),
\* and raising one vascular index alone never lowers it.
C4_BoostBoundedMonotone ==
    pc = "returned"
        => \A k \in DOMAIN Pass1Systemic :
              LET original == Pass1Systemic[k]["risk_score"]
                  boosted  == systemic_health_risks[k]["risk_score"]
              IN  /\ original <= boosted
                  /\ boosted <= Min(One, original + H(25))
                  /\ boosted = BoostedFor(k, original, features["vascular_metrics"])
                  /\ \A v \in RaiseOneIndex(features["vascular_metrics"]) :
                        BoostedFor(k, original, v) >= boosted

\* A category whose vascular influence exceeds 0.25 is raised by exactly
\* 0.25, below the clip at 1.
C4_Witness ==
    /\ pc = "returned"
    /\ \E k \in DOMAIN Pass1Systemic :
          LET vm == features["vascular_metrics"]
          IN  /\ VascularInfluence(k, vm["tortuosity_index"],
                                   vm["width_variation_index"],
                                   vm["hemorrhage_score"]) > H(25)
              /\ systemic_health_risks[k]["risk_score"]
                    = Pass1Systemic[k]["risk_score"] + H(25)
              /\ systemic_health_risks[k]["risk_score"] < One

(***************************************************************************)
(* C5.  The positive flag.                                                 *)
(***************************************************************************)
\* C5: in every returned result each condition record has positive true
\* exactly when probability >= threshold and the class is not NORMAL.
C5_PositiveIffAboveThreshold ==
    pc = "done"
        => \A c \in DOMAIN result["conditions"] :
              LET data == result["conditions"][c]
              IN  data.positive
                    <=> (data.probability >= data.threshold /\ c # "NORMAL")

(***************************************************************************)
(* C6.  Pass-1 aggregation.                                                *)
(***************************************************************************)
\* What C6 says of primary_condition, max_risk and urgency.
C6_PrimaryAndUrgency(conditions, assessment) ==
    /\ IF PositiveSet(conditions) = {}
       THEN assessment["primary_condition"] = "NORMAL"
       ELSE /\ assessment["primary_condition"] \in PositiveSet(conditions)
            /\ conditions[assessment["primary_condition"]].probability
                  = HighestPositive(conditions)
    /\ ScanConditions(conditions).max_risk = HighestPositive(conditions)
    /\ assessment["urgency"]
          = CONDITION_URGENCY[assessment["primary_condition"]]

\* The level C6 gives: High if combined >= 0.7, else Medium if
\* max_risk >= 0.4, else Low if max_risk >= 0.3, else Minimal.
C6_Ladder(conditions, systemic) ==
    LET max_risk == HighestPositive(conditions)
        combined == Max(max_risk, MulT(HighestSystemic(systemic), 8))
    IN  IF combined >= T(7) THEN "High"
        ELSE IF max_risk >= T(4) THEN "Medium"
        ELSE IF max_risk >= T(3) THEN "Low"
        ELSE "Minimal"

\* C6 as stated: pass 1 gives the primary condition, max_risk and urgency
\* above and the level of the ladder, for every classifier output.
C6_Pass1Aggregation ==
    (pc # "idle" /\ Classified)
        => /\ C6_PrimaryAndUrgency(model_results["conditions"], Pass1Assessment)
           /\ Pass1Assessment["risk_level"]
                 = C6_Ladder(model_results["conditions"], Pass1Systemic)

\* C6 amended: as stated, except that a NORMAL probability above 0.7 makes
\* risk_level Low and primary_condition NORMAL whatever the ladder gives.
C6_Pass1AggregationAmended ==
    (pc # "idle" /\ Classified)
        => IF probs["NORMAL"] > T(7)
           THEN /\ Pass1Assessment["risk_level"] = "Low"
                /\ Pass1Assessment["primary_condition"] = "NORMAL"
                /\ Pass1Assessment["urgency"] = "low"
                /\ ScanConditions(model_results["conditions"]).max_risk
                      = HighestPositive(model_results["conditions"])
           ELSE /\ C6_PrimaryAndUrgency(model_results["conditions"],
                                        Pass1Assessment)
                /\ Pass1Assessment["risk_level"]
                      = C6_Ladder(model_results["conditions"], Pass1Systemic)

\* Scenario B: CNV = 0.45, NORMAL = 0.2, the others low.
C6_Witness ==
    /\ pc = "predicted" /\ Classified
    /\ probs["CNV"] = H(45) /\ probs["NORMAL"] = T(2)
    /\ probs["DME"] < T(3) /\ probs["DRUSEN"] < T(3)
    /\ Pass1Assessment["primary_condition"] = "CNV"
    /\ Pass1Assessment["urgency"] = "high"
    /\ Pass1Assessment["risk_level"] = "Medium"
    /\ Pass1Assessment["requires_referral"]

(***************************************************************************)
(* C7.  combined_risk_score.                                               *)
(***************************************************************************)
\* C7: in the returned assessment combined_risk_score is
\* max(max_risk, 0.8 * max_systemic_risk), max_risk being the probability of
\* the highest positive non-NORMAL condition (0 if none) and
\* max_systemic_risk the largest re-blended systemic score.
C7_CombinedIsMaxOfRisks ==
    pc = "done"
        => /\ "combined_risk_score" \in DOMAIN FinalAssessment
           /\ FinalAssessment["combined_risk_score"]
                 = Max(HighestPositive(result["conditions"]),
                       MulT(HighestSystemic(FinalSystemic), 8))

(***************************************************************************)
(* C8.  requires_systemic_followup.                                        *)
(***************************************************************************)
\* C8: in every result requires_systemic_followup is true exactly when some
\* returned systemic category is at Moderate or High.
C8_FollowupMatchesFinalSystemic ==
    pc = "done"
        => (Get(FinalAssessment, "requires_systemic_followup", FALSE)
              <=> \E k \in DOMAIN FinalSystemic :
                      FinalSystemic[k]["risk_level"] \in {"Moderate", "High"})

(***************************************************************************)
(* C9.  Systemic score and level.                                          *)
(***************************************************************************)
\* The bands C9 gives: High >= 0.6, Moderate >= 0.3, Low >= 0.1.
C9_Band(risk_score) ==
    IF risk_score >= T(6) THEN "High"
    ELSE IF risk_score >= T(3) THEN "Moderate"
    ELSE IF risk_score >= T(1) THEN "Low"
    ELSE "Minimal"

C9_InBand(systemic) ==
    \A k \in DOMAIN systemic :
        /\ systemic[k]["risk_score"] >= 0
        /\ systemic[k]["risk_score"] <= One
        /\ systemic[k]["risk_level"] = C9_Band(systemic[k]["risk_score"])

\* The pass-1 score C9 gives: min(1, sum of probability * weight over the
\* category's conditions whose probability is above 0.1).
RECURSIVE C9_WeightedSum(_, _)
C9_WeightedSum(factors, p) ==
    IF factors = <<>> THEN 0
    ELSE (IF p[Head(factors)[1]] > T(1)
          THEN MulT(p[Head(factors)[1]], Head(factors)[2]) ELSE 0)
         + C9_WeightedSum(Tail(factors), p)

\* C9: the systemic risks predict or the fallback returned, and those of
\* the AnalysisResult, have risk_score in [0,1] and risk_level the band of
\* risk_score; the pass-1 score is the clipped weighted sum.
C9_SystemicScoreAndBand ==
    /\ pc # "idle" => C9_InBand(Pass1Systemic)
    /\ pc = "done" => C9_InBand(FinalSystemic)
    /\ (pc # "idle" /\ Classified)
          => \A k \in DOMAIN Pass1Systemic :
                Pass1Systemic[k]["risk_score"]
                    = Min(One, C9_WeightedSum(RISK_FACTORS[k], probs))

(***************************************************************************)
(* C10.  contributing_conditions.                                          *)
(***************************************************************************)
\* C10: for every category contributing_conditions records exactly the
\* associated conditions with probability above 0.1, and the recorded
\* contributions sum to the unclipped risk_score.
C10_ContributingRecordsAll ==
    (pc # "idle" /\ Classified)
        => \A k \in DOMAIN Pass1Systemic :
              LET list == Pass1Systemic[k]["contributing_conditions"]
                  factors == RISK_FACTORS[k]
              IN  /\ {list[i].condition : i \in 1..Len(list)}
                        = {factors[i][1] : i \in
                              {j \in 1..Len(factors) :
                                  probs[factors[j][1]] > T(1)}}
                  /\ SumContributions(list)
                        = RawSystemicScore(k, model_results["conditions"])

(***************************************************************************)
(* C11.  validate_image: what decides is_valid.                            *)
(***************************************************************************)
\* A call of validate_image that has returned.
Validated == pc = "returned" /\ Get(image, "call", "") = "validate_image"

\* True when x occurs in the sequence list.
Has(list, x) == \E i \in 1..Len(list) : list[i] = x

\* C11: validate_image returns is_valid = true if and only if width >= 256,
\* height >= 256 and quality_score >= 0.5; a width or height above 4096
\* only adds the warning issue, and two images that differ only in what
\* the brightness, contrast and blur rules see but have the same
\* dimensions and the same quality verdict have the same is_valid.
C11_IsValidIffSizeAndQuality ==
    Validated =>
        /\ validation.is_valid <=>
              (/\ image.width >= 256
               /\ image.height >= 256
               /\ 2 * validation.quality_score >= QualityUnit)
        /\ Has(validation.issues, "very_large") <=>
              (image.width > 4096 \/ image.height > 4096)
        /\ \A other \in QualityMetrics :
              (2 * QualityScore(other) >= QualityUnit
                  <=> 2 * validation.quality_score >= QualityUnit)
              => ValidateImage(image.width, image.height, other).is_valid
                    = validation.is_valid

\* A very large (5000 x 4096), dark and blurry image whose quality score
\* is still at least 0.5 is valid and carries the three advisory issues.
C11_Witness ==
    /\ Validated
    /\ image.width = 5000 /\ image.height = 4096
    /\ validation.is_valid
    /\ Has(validation.issues, "very_large")
    /\ Has(validation.issues, "too_dark")
    /\ Has(validation.issues, "blurry")

(***************************************************************************)
(* C12.  assess_image_quality.                                             *)
(***************************************************************************)
\* A call of assess_image_quality that has returned.
Assessed == pc = "returned" /\ Get(image, "call", "") = "assess_image_quality"

\* 0.3*min(s/500,1) + 0.3*min(c/50,1) + 0.2*min(|b-128|/128,1)
\* + 0.2*min(r/255,1), in units of 1/QualityUnit (0.3/500 = 2448 units,
\* 0.3/50 = 24480, 0.2/128 = 6375, 0.2/255 = 3200).
C12_Formula(m) ==
    2448 * Min(m.sharpness, 500) + 24480 * Min(m.contrast, 50)
    + 6375 * Min(Abs(m.brightness - 128), 128)
    + 3200 * Min(m.dynamic_range, 255)

\* The metrics of scenario C.
C12_ScenarioC ==
    [sharpness |-> 20, contrast |-> 10, brightness |-> 60,
     dynamic_range |-> 90]

\* C12: assess_image_quality returns the weighted sum of the four clipped
\* metrics, which lies in [0,1]; a single-colour image scores below 0.5
\* and validate_image rejects it whatever its size; scenario C scores
\* about 0.248 (in [0.248, 0.249)) and is invalid; and a failure inside
\* the function yields 0.0.
C12_QualityScore ==
    Assessed =>
        /\ image.raises => validation.quality_score = 0
        /\ ~image.raises =>
              /\ validation.quality_score = C12_Formula(image.metrics)
              /\ validation.quality_score >= 0
              /\ validation.quality_score <= QualityUnit
        /\ (/\ ~image.raises
            /\ image.metrics.sharpness = 0
            /\ image.metrics.contrast = 0
            /\ image.metrics.dynamic_range = 0)
              => /\ 2 * validation.quality_score < QualityUnit
                 /\ \A w \in Dimensions, h \in Dimensions :
                       ~ValidateImage(w, h, image.metrics).is_valid
        /\ (~image.raises /\ image.metrics = C12_ScenarioC)
              => /\ 1000 * validation.quality_score >= 248 * QualityUnit
                 /\ 1000 * validation.quality_score < 249 * QualityUnit
                 /\ ~ValidateImage(1024, 1024, image.metrics).is_valid

\* Scenario C has been assessed and scored about 0.248.
C12_Witness ==
    /\ Assessed
    /\ ~image.raises
    /\ image.metrics = C12_ScenarioC
    /\ 1000 * validation.quality_score >= 248 * QualityUnit
    /\ 1000 * validation.quality_score < 249 * QualityUnit

(***************************************************************************)
(* C13.  Isolation of feature-extraction failures.                         *)
(***************************************************************************)
\* A call of analyze_image_features that has returned.
Analyzed ==
    pc = "returned" /\ Get(image, "call", "") = "analyze_image_features"

\* C13: when exactly one of edge detection, blob detection and texture
\* analysis fails, analyze_image_features returns with that feature at its
\* neutral default, the two other raw features at their computed values,
\* and the vascular metrics derived from those three values.
C13_FailureIsolated ==
    (Analyzed /\ Cardinality(image.failed) = 1) =>
        LET vd == IF "edges" \in image.failed THEN 0
                  ELSE image.vessel_density
            n  == IF "blobs" \in image.failed THEN 0
                  ELSE image.potential_abnormalities_count
            tv == IF "texture" \in image.failed THEN 0
                  ELSE image.texture_variance
        IN  /\ features.vessel_density = vd
            /\ features.potential_abnormalities_count = n
            /\ features.texture_variance = tv
            /\ features.vascular_metrics = VascularMetrics(vd, n, tv)

(***************************************************************************)
(* C14.  The fallback against the pipeline on the same probabilities.      *)
(***************************************************************************)
\* The probability vector of the fallback: NORMAL 0.7, the others 0.1.
C14_FallbackVector ==
    [c \in ClassSet |-> IF c = "NORMAL" THEN T(7) ELSE T(1)]

\* What the stages compute when a classifier returns p and the feature
\* extractor returns feats: _build_clinical_results, then the re-blend.
C14_Pipeline(p, feats) ==
    LET results == BuildClinicalResults(p)
        out == EnrichSystemicRisksWithVascular(
                   results.systemic_health_risks,
                   Get(feats, "vascular_metrics", NoDict),
                   results.risk_assessment)
    IN  BuildAnalysisResult(results, feats, out[1], out[2], validation)

\* C14: a request served by the fallback (classifier not loaded, or predict
\* raised) completes, and its conditions, systemic risks, risk assessment
\* and final result equal what the pipeline computes from the vector
\* NORMAL=0.7, CNV=DME=DRUSEN=0.1 with the same image features.
C14_FallbackEqualsPipeline ==
    (pc = "done" /\ ~Classified) =>
        LET same == C14_Pipeline(C14_FallbackVector, features)
        IN  /\ result.conditions = same.conditions
            /\ result.systemic_health_risks = same.systemic_health_risks
            /\ result.risk_assessment = same.risk_assessment
            /\ result = same

(***************************************************************************)
(* C15.  Input errors fail the whole request.                              *)
(***************************************************************************)
\* The request's image is oversize, undecodable or too small.
C15_InputError ==
    /\ DOMAIN image # {}
    /\ image.http_ok
    /\ \/ image.size_bytes > MAX_IMAGE_SIZE
       \/ ~image.decodable
       \/ image.width < 256
       \/ image.height < 256

\* C15: for an oversize image, an undecodable image or an image whose
\* width or height is below 256, perform_analysis never produces an
\* AnalysisResult and the client is never answered with one.
C15_InputErrorFailsRequest ==
    C15_InputError =>
        /\ result = NoDict
        /\ pc = "responded" => response.status_code # 200

(***************************************************************************)
(* C16.  What a failed request reports.                                    *)
(***************************************************************************)
\* An exception that download_image raised is a fault of the input; any
\* other one is internal.
C16_InputFault(e) == e.type = "ValueError"

\* The exceptions a request of the model can end with.
C16_Exceptions ==
    {DownloadImage(source).exception :
        source \in {x \in Sources : DownloadImage(x).raised}}
    \cup {[type |-> "cv2.error",
           message |-> <<"OpenCV resize assertion failed">>]}

\* The class of an answer: its status and the fixed sentence that opens
\* its detail.
C16_Class(answer) == <<answer.status_code, Head(answer.detail)>>

\* C16: a failed request is answered with a status or message class that
\* differs between bad input and internal error, and the detail of the
\* answer holds no text of the exception that was raised.
C16_CauseDistinctNoLeak ==
    (pc = "responded" /\ response.status_code # 200) =>
        /\ \A other \in C16_Exceptions :
              (C16_InputFault(other) # C16_InputFault(exception))
                 => C16_Class(HTTPExceptionFor(other)) # C16_Class(response)
        /\ \A i \in 1..Len(exception.message) :
              ~Has(response.detail, exception.message[i])

(***************************************************************************)
(* C17, C18.  The recommendation rules.                                    *)
(***************************************************************************)
\* A call of _generate_recommendations that has returned.
Recommended == pc = "returned" /\ "recommendations" \in DOMAIN result

\* The systemic categories at Moderate or High.
Elevated(systemic_risks) ==
    {k \in DOMAIN systemic_risks :
        systemic_risks[k].risk_level \in {"Moderate", "High"}}

\* C17: when primary_condition is NORMAL and risk_level is Minimal or Low,
\* the list starts with the reassurance line, continues with exactly one
\* warning line per systemic category at Moderate/High, holds the
\* routine-followup line if and only if there was no warning, and holds
\* nothing else (no condition line, no banner, no summary block).
C17_HealthyBranch ==
    (/\ Recommended
     /\ model_results.risk_assessment["primary_condition"] = "NORMAL"
     /\ model_results.risk_assessment["risk_level"] \in {"Minimal", "Low"})
    => LET recs == result.recommendations
           elevated == Elevated(model_results.systemic_health_risks)
           n == Cardinality(elevated)
       IN  /\ Len(recs) >= 1
           /\ recs[1] = Line("reassurance", "NORMAL")
           /\ \A i \in 2..(1 + n) :
                 i <= Len(recs) /\ recs[i].kind = "systemic_warning"
           /\ \A k \in elevated :
                 Cardinality({i \in 1..Len(recs) :
                                 recs[i] = Line("systemic_warning", k)}) = 1
           /\ Has(recs, Line("routine_followup", "NORMAL")) <=> (n = 0)
           /\ Len(recs) = 1 + (IF n = 0 THEN 1 ELSE n)
           /\ \A i \in 1..Len(recs) :
                 recs[i].kind \in {"reassurance", "systemic_warning",
                                   "routine_followup"}

\* A healthy assessment with two categories at Moderate/High has returned
\* the reassurance line and two warnings.
C17_Witness ==
    /\ Recommended
    /\ model_results.risk_assessment["primary_condition"] = "NORMAL"
    /\ model_results.risk_assessment["risk_level"] = "Low"
    /\ Cardinality(Elevated(model_results.systemic_health_risks)) = 2
    /\ Len(result.recommendations) = 3

\* The place of a line in the fixed order of the rules.
C18_Rank(line) ==
    IF line.kind \in {"condition", "condition_action"}
    THEN (IF line.about = "CNV" THEN 1
          ELSE IF line.about = "DME" THEN 2 ELSE 3)
    ELSE IF line.kind \in {"systemic", "systemic_action"}
    THEN (IF line.about = "cardiovascular" THEN 4
          ELSE IF line.about = "diabetes" THEN 5
          ELSE IF line.about = "hypertension" THEN 6 ELSE 7)
    ELSE IF line.kind = "banner" THEN 8
    ELSE IF line.kind = "summary" THEN 9
    ELSE 0

\* The list returned outside the healthy branch.
C18_Order ==
    (Recommended /\ ~HealthyBranch(model_results.risk_assessment))
    => LET recs == result.recommendations
           assessment == model_results.risk_assessment
           systemic_risks == model_results.systemic_health_risks
       IN  /\ \A i \in 1..Len(recs) : C18_Rank(recs[i]) >= 1
           /\ \A i \in 1..Len(recs), j \in 1..Len(recs) :
                 i < j => C18_Rank(recs[i]) <= C18_Rank(recs[j])
           /\ \A c \in {"CNV", "DME", "DRUSEN"} :
                 Has(recs, Line("condition", c))
                    <=> Has(assessment["positive_conditions"], c)
           /\ \A k \in SystemicSet :
                 Has(recs, Line("systemic", k))
                    <=> k \in Elevated(systemic_risks)
           /\ Cardinality({i \in 1..Len(recs) : recs[i].kind = "banner"}) <= 1
           /\ (\E i \in 1..Len(recs) : recs[i].kind = "summary")
                 <=> assessment["requires_systemic_followup"]
           /\ recs = GenerateRecommendations(NoDict, assessment, systemic_risks)

\* Every step of a call leaves the lines already in the list in place.
C18_AppendOnly ==
    [][("recommendations" \in DOMAIN result
        /\ "recommendations" \in DOMAIN result')
       => /\ Len(result.recommendations) <= Len(result'.recommendations)
          /\ SubSeq(result'.recommendations, 1, Len(result.recommendations))
                = result.recommendations]_vars

\* C18: outside the healthy branch the list is built append-only in a fixed
\* order: the lines of the positive conditions in the order CNV, DME,
\* DRUSEN, then those of the systemic categories at Moderate/High in the
\* order cardiovascular, diabetes, hypertension, stroke, then at most one
\* urgency banner, then the summary block if and only if
\* requires_systemic_followup; no rule removes or reorders earlier lines.
C18_FixedOrderAppendOnly == []C18_Order /\ C18_AppendOnly

\* A call with the three conditions positive, a category at Moderate/High
\* and level High has returned a list that ends with the banner and the
\* summary block.
C18_Witness ==
    /\ Recommended
    /\ model_results.risk_assessment["positive_conditions"]
          = <<"CNV", "DME", "DRUSEN">>
    /\ model_results.risk_assessment["risk_level"] = "High"
    /\ Elevated(model_results.systemic_health_risks) # {}
    /\ Has(result.recommendations, Line("banner", "High"))
    /\ result.recommendations[Len(result.recommendations)].kind = "summary"

(***************************************************************************)
(* C19.  The urgency banner of the returned recommendations.               *)
(***************************************************************************)
\* The number of urgency banners in a list.
C19_Banners(recs) == Cardinality({i \in 1..Len(recs) : recs[i].kind = "banner"})

\* C19: in a returned AnalysisResult whose recommendations did not take the
\* healthy early return, the list holds exactly one urgency banner, that
\* of the final risk_level, when this level is High or Medium, and no
\* banner when it is Low or Minimal.
C19_BannerMatchesFinalLevel ==
    (pc = "done" /\ ~HealthyBranch(Pass1Assessment)) =>
        LET recs == result.recommendations
            level == FinalAssessment["risk_level"]
        IN  IF level \in {"High", "Medium"}
            THEN C19_Banners(recs) = 1 /\ Has(recs, Line("banner", level))
            ELSE C19_Banners(recs) = 0

(***************************************************************************)
(* C20.  The vascular metrics.                                             *)
(***************************************************************************)
\* clip(x, 0, 1) for a fixed-point x
C20_Clip(x) == IF x < 0 THEN 0 ELSE IF x > One THEN One ELSE x

\* C20: with vd_norm = clip(5*vessel_density) and tv_norm =
\* clip(texture_variance/500), a call in which no sub-computation fails
\* returns tortuosity_index = clip(0.6*tv_norm + 0.4*vd_norm),
\* width_variation_index = clip(0.7*tv_norm + 0.3*(1 - vd_norm)),
\* hemorrhage_score = clip(0.5*count/50 + 0.5*vd_norm) and
\* microaneurysm_count = the blob count; for every call the three scores
\* are in [0,1] and the count is not negative; vessel_density = 0.02,
\* texture_variance = 50, count = 0 gives tortuosity 0.1 and hemorrhage
\* 0.05.
C20_VascularMetrics ==
    Analyzed =>
        LET vm == features.vascular_metrics
            vd_norm == C20_Clip(5 * image.vessel_density)
            tv_norm == C20_Clip((image.texture_variance * One) \div 500)
            count == image.potential_abnormalities_count
        IN  /\ \A k \in {"tortuosity_index", "width_variation_index",
                         "hemorrhage_score"} : vm[k] >= 0 /\ vm[k] <= One
            /\ vm.microaneurysm_count >= 0
            /\ image.failed = {} =>
                  /\ vm.tortuosity_index
                        = C20_Clip((6 * tv_norm + 4 * vd_norm) \div 10)
                  /\ vm.width_variation_index
                        = C20_Clip((7 * tv_norm + 3 * (One - vd_norm)) \div 10)
                  /\ vm.hemorrhage_score
                        = C20_Clip((count * One) \div 100 + vd_norm \div 2)
                  /\ vm.microaneurysm_count = count
            /\ (/\ image.failed = {}
                /\ image.vessel_density = H(2)
                /\ image.texture_variance = 50
                /\ count = 0)
               => vm.tortuosity_index = T(1) /\ vm.hemorrhage_score = H(5)

\* The example of the claim has been computed.
C20_Witness ==
    /\ Analyzed
    /\ image.failed = {}
    /\ image.vessel_density = H(2)
    /\ image.texture_variance = 50
    /\ image.potential_abnormalities_count = 0
    /\ features.vascular_metrics.tortuosity_index = T(1)
    /\ features.vascular_metrics.hemorrhage_score = H(5)

(***************************************************************************)
(* C21.  Scenario A: a quiet vascular picture.                             *)
(***************************************************************************)
\* The features of scenario A: vessel_density 0.02, no blob, texture
\* variance 50 (tortuosity 0.1, width variation 0.34, hemorrhage 0.05).
C21_ScenarioA ==
    /\ DOMAIN features # {}
    /\ features.vessel_density = H(2)
    /\ features.texture_variance = 50
    /\ features.potential_abnormalities_count = 0
    /\ features.vascular_metrics = VascularMetrics(H(2), 0, 50)

\* C21: for every classifier output, with the vascular metrics of scenario
\* A the returned risk_level is the pass-1 risk_level and every systemic
\* category keeps its pass-1 risk_level.
C21_ScenarioALeavesLevels ==
    (pc = "done" /\ Classified /\ C21_ScenarioA) =>
        /\ FinalAssessment["risk_level"] = Pass1Assessment["risk_level"]
        /\ \A k \in SystemicSet :
              FinalSystemic[k]["risk_level"] = Pass1Systemic[k]["risk_level"]

(***************************************************************************)
(* C22.  The number of planned regions and their confidence.               *)
(***************************************************************************)
\* generate_annotations has returned (a direct call).
Annotated == DOMAIN result # {} /\ DOMAIN result = {"abnormal_regions", "image_dimensions"}

C22_Clip(x, lo, hi) == Max(lo, Min(hi, x))

\* C22: generate_annotations plans exactly
\* clip(min(abnormalities_count, 5) + (1 if hemorrhage_score >= 0.4 else 0),
\* 0, 6) regions, and the confidence of every planned region lies in
\* [0.4, 0.9].
C22_RegionCountAndConfidence ==
    Annotated =>
        LET n == features.potential_abnormalities_count
            h == features.vascular_metrics.hemorrhage_score
            regions == result.abnormal_regions
        IN  /\ Len(regions) =
                  C22_Clip(Min(n, 5) + (IF h >= T(4) THEN 1 ELSE 0), 0, 6)
            /\ \A i \in 1..Len(regions) :
                  /\ regions[i].confidence >= T(4)
                  /\ regions[i].confidence <= T(9)

\* Seven blobs and a hemorrhage score of 0.4: five regions and one more.
C22_Witness ==
    /\ Annotated
    /\ features.potential_abnormalities_count = 7
    /\ features.vascular_metrics.hemorrhage_score = T(4)
    /\ Len(result.abnormal_regions) = 6

\* Seven blobs below the hemorrhage edge: five regions.
C22_WitnessBelowEdge ==
    /\ Annotated
    /\ features.potential_abnormalities_count = 7
    /\ features.vascular_metrics.hemorrhage_score = T(4) - 1
    /\ Len(result.abnormal_regions) = 5
    /\ \E i \in 1..5 : result.abnormal_regions[i].confidence < T(9)

(***************************************************************************)
(* C23.  generate_annotations is deterministic.                            *)
(***************************************************************************)
\* C23: two invocations of generate_annotations with the same features
\* (abnormalities count and hemorrhage score), width and height return the
\* same region list, whatever was done with the random module before or
\* between them.
C23_SameArgumentsSameRegions ==
    (pc = "idle" /\ DOMAIN response # {}) =>
        \A i, j \in DOMAIN response :
            (/\ response[i].features = response[j].features
             /\ response[i].image_shape = response[j].image_shape)
            => response[i].annotations.abnormal_regions =
                   response[j].annotations.abnormal_regions

\* Two calls with the same arguments, entered with the generator in
\* different states, that planned several regions.
C23_Witness ==
    /\ pc = "idle"
    /\ DOMAIN response = {1, 2}
    /\ response[1].features = response[2].features
    /\ response[1].image_shape = response[2].image_shape
    /\ response[1].entry_state >= 0
    /\ response[2].entry_state >= 0
    /\ response[1].entry_state # response[2].entry_state
    /\ Len(response[2].annotations.abnormal_regions) >= 2

(***************************************************************************)
(* C24.  The fallback region.                                              *)
(***************************************************************************)
\* perform_analysis has built its AnalysisResult for a downloaded image.
C24_Analysed ==
    /\ pc \in {"analysed", "responded"}
    /\ "annotations" \in DOMAIN result

\* generate_annotations planned no region for the request's features.
C24_NonePlanned ==
    RegionsToDraw(features.potential_abnormalities_count,
                  features.vascular_metrics.hemorrhage_score) = 0

\* The analysis signals a positive finding: the predicted class is a
\* disease, or some disease class is positive.
C24_PositiveFinding ==
    \/ model_results.predicted_class # "NORMAL"
    \/ \E c \in ClassSet \ {"NORMAL"} : model_results.conditions[c].positive

\* A box of about a quarter of the side, in the middle of it: the 40-pixel
\* floor of the code is above the quarter only below 160 pixels, a size
\* validate_image calls too small.
C24_QuarterInTheMiddle(side, at, box) ==
    /\ box = Max(40, side \div 4)
    /\ side >= MIN_DIMENSION => box = side \div 4
    /\ 2 * at + box \in {side - 1, side}

C24_WitnessHealthy ==
    /\ C24_Analysed /\ C24_NonePlanned /\ ~C24_PositiveFinding
    /\ result.annotations.abnormal_regions = <<>>

(***************************************************************************)
(* C25.  The per-condition records.                                        *)
(***************************************************************************)
\* The classes whose record is positive.
C25_Positives == {c \in ClassSet : model_results.conditions[c].positive}

RECURSIVE C25_Sum(_, _)
C25_Sum(f, keys) ==
    IF keys = {} THEN 0
    ELSE LET k == CHOOSE x \in keys : TRUE
         IN  f[k] + C25_Sum(f, keys \ {k})

\* C25 as the specification states it: the record probabilities are the
\* classifier's values, they sum to 1, and exactly one class is positive,
\* the one the assessment reports with the highest probability.
C25_ExactlyOnePositive ==
    (pc # "idle" /\ Classified) =>
        /\ \A c \in ClassSet : model_results.conditions[c].probability = probs[c]
        /\ C25_Sum([c \in ClassSet |-> model_results.conditions[c].probability],
                   ClassSet) = One
        /\ Cardinality(C25_Positives) = 1
        /\ \A c \in C25_Positives :
              /\ Pass1Assessment["primary_condition"] = c
              /\ \A d \in C25_Positives : probs[d] <= probs[c]

\* C25, amended: the record probabilities are the classifier's values and
\* sum to 1; the positive classes are exactly the disease classes at or
\* above their threshold, none, one or several of them (NORMAL is never
\* positive); the assessment lists exactly those classes, and unless the
\* healthy override applies its primary condition is a positive class of
\* the highest probability among them.
C25_PositivesAreDiseasesAtThreshold ==
    (pc # "idle" /\ Classified) =>
        /\ \A c \in ClassSet : model_results.conditions[c].probability = probs[c]
        /\ C25_Sum([c \in ClassSet |-> model_results.conditions[c].probability],
                   ClassSet) = One
        /\ C25_Positives =
              {c \in ClassSet \ {"NORMAL"} : probs[c] >= CLINICAL_THRESHOLDS[c]}
        /\ Cardinality(C25_Positives) <= 3
        /\ {Pass1Assessment["positive_conditions"][i] :
               i \in 1..Len(Pass1Assessment["positive_conditions"])}
              = C25_Positives
        /\ Pass1Assessment["primary_condition"] # "NORMAL" =>
              /\ Pass1Assessment["primary_condition"] \in C25_Positives
              /\ \A d \in C25_Positives :
                    probs[d] <= probs[Pass1Assessment["primary_condition"]]

\* Three positive classes at once.
C25_Witness ==
    /\ pc # "idle" /\ Classified
    /\ C25_Positives = {"CNV", "DME", "DRUSEN"}
    /\ Pass1Assessment["primary_condition"] = "DRUSEN"

(***************************************************************************)
(* C27.  What the re-blend may change.                                     *)
(***************************************************************************)
\* d2 is d1 with at most the keys of `changed` written.
C27_SameExcept(d1, d2, changed) ==
    /\ DOMAIN d1 \subseteq DOMAIN d2
    /\ DOMAIN d2 \subseteq DOMAIN d1 \cup changed
    /\ \A f \in DOMAIN d1 \ changed : d2[f] = d1[f]

\* C27: enrich_systemic_risks_with_vascular returns dictionaries that
\* differ from its arguments only in risk_score and risk_level of each
\* systemic entry and in risk_level and combined_risk_score of the
\* assessment (risk_score, primary_condition, positive_conditions, urgency
\* and every other field keep the argument's value), and returns both
\* arguments as they are when the systemic risks or the vascular metrics
\* are empty.
C27_ReblendConfined ==
    (pc \in {"returned", "returned_inputs"}) =>
        LET arg_systemic == model_results["systemic_health_risks"]
            arg_assessment == model_results["risk_assessment"]
            arg_vascular == features["vascular_metrics"]
        IN  IF arg_systemic = NoDict \/ arg_vascular = NoDict
            THEN /\ systemic_health_risks = arg_systemic
                 /\ risk_assessment = arg_assessment
            ELSE /\ DOMAIN systemic_health_risks = DOMAIN arg_systemic
                 /\ \A k \in DOMAIN arg_systemic :
                       C27_SameExcept(arg_systemic[k], systemic_health_risks[k],
                                      {"risk_score", "risk_level"})
                 /\ C27_SameExcept(arg_assessment, risk_assessment,
                                   {"risk_level", "combined_risk_score"})

\* A call that moved the level of the assessment and of a category and
\* left urgency and referral as they were.
C27_Witness ==
    /\ pc = "returned"
    /\ risk_assessment["risk_level"] # model_results["risk_assessment"]["risk_level"]
    /\ risk_assessment["combined_risk_score"]
          # model_results["risk_assessment"]["combined_risk_score"]
    /\ \E k \in SystemicSet :
          systemic_health_risks[k]["risk_level"]
              # model_results["systemic_health_risks"][k]["risk_level"]
    /\ risk_assessment["urgency"] = model_results["risk_assessment"]["urgency"]

\* A call without vascular metrics.
C27_WitnessEmpty ==
    /\ pc = "returned_inputs"
    /\ features["vascular_metrics"] = NoDict
    /\ model_results["systemic_health_risks"] # NoDict
    /\ systemic_health_risks = model_results["systemic_health_risks"]

(***************************************************************************)
(* C30.  A NORMAL primary condition in pass 1.                             *)
(***************************************************************************)
\* C30: for every classifier output, if the pass-1 assessment has
\* primary_condition NORMAL then positive_conditions is empty, risk_level
\* is Minimal or Low, requires_referral is false, every pass-1 systemic
\* risk_score is below 0.3 (no category at Moderate or High), and the
\* recommendation list is the reassurance line followed by the
\* routine-followup line.
C30_NormalPrimaryIsHealthy ==
    (/\ pc # "idle" /\ Classified
     /\ Pass1Assessment["primary_condition"] = "NORMAL")
    => /\ Pass1Assessment["positive_conditions"] = <<>>
       /\ Pass1Assessment["risk_level"] \in {"Minimal", "Low"}
       /\ Pass1Assessment["requires_referral"] = FALSE
       /\ \A k \in SystemicSet :
             /\ Pass1Systemic[k]["risk_score"] < T(3)
             /\ Pass1Systemic[k]["risk_level"] \notin {"Moderate", "High"}
       /\ model_results["recommendations"] =
             <<Line("reassurance", "NORMAL"), Line("routine_followup", "NORMAL")>>

\* Every disease class just below its threshold: primary NORMAL with a
\* cardiovascular score well above 0.
C30_Witness ==
    /\ pc # "idle" /\ Classified
    /\ Pass1Assessment["primary_condition"] = "NORMAL"
    /\ probs["CNV"] = H(25) /\ probs["DME"] = H(25) /\ probs["DRUSEN"] = H(35)
    /\ Pass1Systemic["cardiovascular"]["risk_score"] >= T(2)
    /\ Pass1Assessment["risk_level"] = "Minimal"

(***************************************************************************)
(* C29.  The state of the model service.                                   *)
(***************************************************************************)
\* The latest call on the service was `call`.
C29_Called(call) == DOMAIN response # {} /\ response.call = call

C29_Service == model_service.created /\ "last_load" \in DOMAIN model_service

C29_WitnessNotLoaded ==
    /\ C29_Service
    /\ model_service.last_load = "never"
    /\ C29_Called("predict_batch")
    /\ response.raised = "ValueError"

(***************************************************************************)
(* C28.  Batch accounting.                                                 *)
(***************************************************************************)
\* The indices (from 0) of the first n items on which analyze_image
\* succeeds, and of those on which it fails.
C28_Succeeded(n) == {i \in 0..(n - 1) : batch.items[i + 1].analysable}

C28_Failed(n) == {i \in 0..(n - 1) : ~batch.items[i + 1].analysable}

\* The k-th smallest element of a set of numbers.
C28_Nth(S, k) == CHOOSE x \in S : Cardinality({y \in S : y < x}) = k - 1

\* results and errors account for the first n items, in input order.
C28_Accounted(n) ==
    /\ Len(batch.results) = Cardinality(C28_Succeeded(n))
    /\ Len(batch.errors) = Cardinality(C28_Failed(n))
    /\ \A k \in 1..Len(batch.results) :
          batch.results[k].image_url
              = batch.items[C28_Nth(C28_Succeeded(n), k) + 1].image_url
    /\ \A k \in 1..Len(batch.errors) :
          /\ batch.errors[k].index = C28_Nth(C28_Failed(n), k)
          /\ batch.errors[k].image_url
                = batch.items[batch.errors[k].index + 1].image_url

\* C28: analyze_images_batch rejects an empty list and a list longer than
\* MAX_BATCH_SIZE with status 400 before analysing anything; otherwise it
\* analyses every item in order, a failing item does not stop the items
\* after it, every item index is accounted for exactly once, by a result
\* or by an error, results keep the input order, and summary.total =
\* success_count + failed_count = the number of items.
C28_BatchAccounting ==
    /\ pc = "batch_rejected" =>
          /\ Len(batch.items) = 0 \/ Len(batch.items) > MaxBatchSize
          /\ response.status_code = 400
          /\ batch.analysed = 0 /\ batch.results = <<>> /\ batch.errors = <<>>
    /\ pc \in {"batch_loop", "batch_done"} =>
          /\ Len(batch.items) \in 1..MaxBatchSize
          /\ batch.idx <= Len(batch.items)
          /\ batch.analysed = batch.idx
          /\ C28_Accounted(batch.idx)
    /\ pc = "batch_done" =>
          /\ batch.analysed = Len(batch.items)
          /\ response.status_code = 200
          /\ response.results = batch.results /\ response.errors = batch.errors
          /\ response.summary.total = Len(batch.items)
          /\ response.summary.total
                = response.summary.success_count + response.summary.failed_count
          /\ response.summary.success_count = Len(response.results)
          /\ response.summary.failed_count = Len(response.errors)

\* A full batch whose first item fails and whose later items succeed.
C28_Witness ==
    /\ pc = "batch_done"
    /\ Len(batch.items) = MaxBatchSize
    /\ ~batch.items[1].analysable
    /\ Len(response.results) = MaxBatchSize - 1
    /\ Len(response.errors) = 1

\* A list one item too long.
C28_WitnessTooLong ==
    /\ pc = "batch_rejected"
    /\ Len(batch.items) = MaxBatchSize + 1

(***************************************************************************)
(* C26.  Request isolation.                                                *)
(***************************************************************************)
\* C26: whatever the interleaving of two concurrent analysis requests, the
\* result of each request is the result the request gets when it runs
\* alone from the state it arrived in.
C26_RequestIsolation ==
    \A r \in DOMAIN requests :
        requests[r].status = "done" => requests[r].result = requests[r].alone

=============================================================================
